---- MODULE Spec2Model ----
(***************************************************************************)
(* Model of the GitHub synchronisation of kavoff/figma-sync                *)
(* (src/src/services/github.service.ts).  Concurrent syncContent calls run *)
(* against one remote repository; every awaited Octokit request is one     *)
(* atomic step at the remote, and the code between two awaits belongs to   *)
(* the step of the request that follows it.  The handlers of the text      *)
(* controller (src/src/controllers/text.controller.ts) change the text     *)
(* store and run syncContent when the GitHub PR mode is configured.  The   *)
(* text store (TextService, src/unnamed/part_002) is modelled with the     *)
(* JSON text it writes and reads, and the templates of the commit message  *)
(* and of the pull request with the String.prototype.replace that renders  *)
(* them.                                                                   *)
(***************************************************************************)
EXTENDS Integers, Sequences, FiniteSets, TLC

VARIABLES
    baseFile,     \* remote: content of targetPath on the base branch (NoFile if absent)
    branches,     \* remote: the feature branches, [name, file]: file is the content of targetPath there
    prs,          \* remote: pull requests opened, [head, url]
    extWrites,    \* number of writes to the base branch by other writers so far
    faultsLeft,   \* how many more remote requests may fail for an outside cause
    now,          \* the clock read by new Date() / Date.now()
    pc,           \* per call: the remote request the call is awaiting
    key,          \* per call: syncContent's parameter key
    newContent,   \* per call: syncContent's parameter newContent
    retryCount,   \* per call: syncContent's parameter retryCount of the running attempt
    timestamp,    \* per call: const timestamp of the running attempt
    branchName,   \* per call: const branchName of the running attempt
    currentFile,  \* per call: const currentFile of the running attempt
    baseTip,      \* per call: baseBranch.data.commit read by createBranch
    commitFetched,\* per call: const currentFile of the running commitFile (its own fetch)
    fileSha,      \* per call: let fileSha of the running commitFile
    caught,       \* per call: the error caught by syncContent's catch
    result,       \* per call: the CreatePRResult returned to the caller
    log,          \* per call: the service methods syncContent called, in order
    env,          \* the Env of validateEnv(): GITHUB_TOKEN and GITHUB_REPO
    service,      \* what new GitHubService(env) gave last: its config, or the error thrown
    prMode,       \* what isGitHubPRModeEnabled(env) returned last
    artifact,     \* TextService: this.artifact
    handler,      \* per request handler: where the handler is
    request,      \* per request handler: the request it handles
    response,     \* per request handler: the response it sent
    handled,      \* number of requests that arrived so far
    returned,     \* the last call of a TextService method and what it returned
    allTexts,     \* the mapping that getAllTexts returned last, as its caller holds it
    storeCalls,   \* number of steps of the caller of the TextService so far
    rendered      \* a template, a key and a timestamp, and the text rendered from them

storeVars == <<returned, allTexts, storeCalls>>

apiVars == <<env, service, prMode, artifact, handler, request, response, handled,
             storeVars, rendered>>

vars == <<baseFile, branches, prs, extWrites, faultsLeft, now, pc, key, newContent,
          retryCount, timestamp, branchName, currentFile, baseTip, commitFetched,
          fileSha, caught, result, log, apiVars>>

remoteVars == <<baseFile, branches, prs>>

----------------------------------------------------------------------------
(* Bounds and input sets *)

MaxExternal == 2
MaxFaults == 1
MaxClock == 1
MaxRequests == 2
MaxCalls == 3

Procs == {"p1", "p2"}
Caller == "p1"
Keys == {"k1", "k2"}
Bodies == {"b1", "b2"}
Contents == Bodies \cup {"b0"}

----------------------------------------------------------------------------
(* Values *)

NoFile == "(no file)"
NoSha == <<>>
ShaOf(c) == <<"sha", c>>
Null == [sha |-> NoSha, content |-> NoFile]
FileOf(c) == IF c = NoFile THEN Null ELSE [sha |-> ShaOf(c), content |-> c]
NoError == "(no error)"
NoUrl == <<>>
NoBranch == <<>>

\* Buffer.from(text).toString('base64') and Buffer.from(enc, 'base64').toString('utf-8')
Base64Encode(text) == <<"base64", text>>
Base64Decode(enc) == enc[2]

\* the error messages the code looks into
NotFoundMsg == "Not Found"
ShaMismatchMsg == "SHA does not match"
RaceConditionMsg == "RACE_CONDITION: File was modified by another process"
RetryFailedMsg == "Failed due to race condition after retry"
PathIsDirectoryMsg == "Path points to a directory, not a file"
PathNotFileMsg == "Path does not point to a file"
\* messages of remote failures the code does not produce itself
ApiErrorMsg == "API Error"
RemoteRaceMsg == "Validation Failed: head RACE_CONDITION"
RefExistsMsg == "Reference already exists"
RefMissingMsg == "Reference does not exist"
ShaMissingMsg == "sha wasn't supplied"
BranchMissingMsg == "Branch not found"

FaultMsgs == {ApiErrorMsg, NotFoundMsg, ShaMismatchMsg, RemoteRaceMsg}

\* error.message.includes('Not Found')
IncludesNotFound(msg) == msg = NotFoundMsg
\* error.message.includes('SHA does not match')
IncludesShaMismatch(msg) == msg = ShaMismatchMsg
\* error.message.includes('RACE_CONDITION')
IncludesRaceCondition(msg) == msg \in {RaceConditionMsg, RemoteRaceMsg}

\* a remote response: resolved with a value, or rejected with an Error
Resolved(v) == [ok |-> TRUE, msg |-> NoError, val |-> v]
Rejected(msg) == [ok |-> FALSE, msg |-> msg, val |-> Null]

NoFault == "(no fault)"
FaultChoices == {NoFault} \cup (IF faultsLeft > 0 THEN FaultMsgs ELSE {})
\* getContent may also find something at targetPath that is no file: a directory
\* (the answer is a listing) or a symlink
DirectoryAnswer == "(directory)"
SymlinkAnswer == "(symlink)"
ContentFaultChoices ==
    FaultChoices \cup (IF faultsLeft > 0 THEN {DirectoryAnswer, SymlinkAnswer} ELSE {})
CountFault(f) == faultsLeft' = IF f = NoFault THEN faultsLeft ELSE faultsLeft - 1

----------------------------------------------------------------------------
(* Results of syncContent *)

\* how a call ended: the CreatePRResult its promise resolved with (thrown = NoError),
\* or the error its promise rejected with
NoResult ==
    [success |-> FALSE, noChanges |-> FALSE, prUrl |-> NoUrl, error |-> NoError,
     thrown |-> NoError]
NoChangeResult == [NoResult EXCEPT !.success = TRUE, !.noChanges = TRUE]
SuccessResultNoUrl(url) == [NoResult EXCEPT !.success = TRUE]
SuccessResult(url) == [NoResult EXCEPT !.success = TRUE, !.prUrl = url]
FailureResult(msg) == [NoResult EXCEPT !.error = msg]
ThrownResult(msg) == [NoResult EXCEPT !.thrown = msg]

BranchNameOf(k, t) == <<"text-update", k, t>>

\* a text that is rendered from a template: the template, the key and the time
\* at which new Date().toISOString() gave the timestamp; NoText: none
NoText == << >>

\* one entry of a call's log: a service method that returned (res = NoError) or
\* threw (res = the message).  arg: the baseSha argument of commitFile; wrote, sha:
\* whether commitFile sent its write and the sha sent with it; file, url: the value
\* returned (the file of getCurrentFile, the url of createPullRequest); resp: what
\* the remote answered to the method's last request; message: the message argument
\* of commitFile; title, body: the arguments of createPullRequest (each as the
\* template, the key and the time it is rendered from)
Entry(p, op, res) ==
    [op |-> op, att |-> retryCount[p], branch |-> branchName[p], res |-> res,
     arg |-> NoSha, wrote |-> FALSE, sha |-> NoSha, file |-> Null, url |-> NoUrl,
     resp |-> Resolved(Null), message |-> NoText, title |-> NoText, body |-> NoText]

Logged(p, e) == log' = [log EXCEPT ![p] = Append(@, e)]

----------------------------------------------------------------------------
(* Configuration: src/src/config/env.ts and the constructor of GitHubService *)

\* a field that is not there (undefined)
Undefined == "(undefined)"

TokenValues == {Undefined, "", "ghp_token"}
RepoValues == {Undefined, "", "owner/repo"}
Envs == [GITHUB_TOKEN : TokenValues, GITHUB_REPO : RepoValues]
ConfiguredEnv == [GITHUB_TOKEN |-> "ghp_token", GITHUB_REPO |-> "owner/repo"]

\* the truth value JavaScript gives an optional string (TruthyEmpty: were the
\* empty string true as well)
TruthyEmpty(str) == str # Undefined
Truthy(str) == str # Undefined /\ str # ""

\* !!(env.GITHUB_TOKEN && env.GITHUB_REPO) (IsGitHubPRModeEnabledTokenOnly: were
\* the token alone looked at)
IsGitHubPRModeEnabledTokenOnly(e) == Truthy(e.GITHUB_TOKEN)
IsGitHubPRModeEnabled(e) == Truthy(e.GITHUB_TOKEN) /\ Truthy(e.GITHUB_REPO)

CredentialsMsg == "GitHub credentials not provided"
NoService ==
    [constructed |-> FALSE, thrown |-> NoError, token |-> Undefined, repo |-> Undefined]
\* new GitHubService(env): throws if (!env.GITHUB_TOKEN || !env.GITHUB_REPO)
NewGitHubService(e) ==
    IF ~Truthy(e.GITHUB_TOKEN) \/ ~Truthy(e.GITHUB_REPO)
    THEN [NoService EXCEPT !.thrown = CredentialsMsg]
    ELSE [constructed |-> TRUE, thrown |-> NoError,
          token |-> e.GITHUB_TOKEN, repo |-> e.GITHUB_REPO]

NotAsked == [asked |-> FALSE, enabled |-> FALSE]
Asked(enabled) == [asked |-> TRUE, enabled |-> enabled]

----------------------------------------------------------------------------
(* TextService: the store of text items (src/unnamed/part_002) *)

\* new Date().toISOString() at clock value t
ToISOString(t) == "1970-01-01T00:00:00.00" \o ToString(t) \o "Z"

SchemaVersion == "1.0.0"

\* what a version field holds when it is no number: NaN, nothing at all
\* (undefined), and the null of a JSON document
NaN == -1
NoVersion == -2
NullVersion == -3

\* existing.version + 1
PlusOne(v) ==
    CASE v = NoVersion -> NaN
      [] v = NaN -> NaN
      [] v = NullVersion -> 1
      [] OTHER -> v + 1

\* what getText returns for a key that texts[key] finds nothing for (null); it
\* stands for the undefined of texts[key] as well
NullItem ==
    [key |-> Undefined, content |-> Undefined, approvedAt |-> Undefined,
     approvedBy |-> Undefined, version |-> 0]

\* texts is a plain object ({}): a property name that Object.prototype defines is
\* found by texts[key] although texts has no such property of its own
PrototypeKeys == {"constructor"}
\* Object.prototype.constructor, a function: none of the fields of an item
InheritedValue ==
    [key |-> Undefined, content |-> Undefined, approvedAt |-> Undefined,
     approvedBy |-> Undefined, version |-> NoVersion]

\* the artifact of the constructor; texts holds the items in the order in which
\* their keys were inserted, which is the order of the properties of the object
NewArtifact(t) ==
    [version |-> SchemaVersion, lastUpdated |-> ToISOString(t), texts |-> << >>]

\* texts has a property of its own named k (the key is in the store)
HasText(a, k) == \E i \in DOMAIN a.texts : a.texts[i].key = k
IndexOfText(a, k) == CHOOSE i \in DOMAIN a.texts : a.texts[i].key = k

\* the item that texts has under k as a property of its own, if any
LookupOwn(a, k) == IF HasText(a, k) THEN a.texts[IndexOfText(a, k)] ELSE NullItem

\* this.artifact.texts[key]
Lookup(a, k) ==
    IF HasText(a, k) THEN a.texts[IndexOfText(a, k)]
    ELSE IF k \in PrototypeKeys THEN InheritedValue
    ELSE NullItem

\* getText(key): this.artifact.texts[key] || null
GetText(a, k) == Lookup(a, k)

\* updateText(key, content, approvedBy) at clock value t: the artifact afterwards
UpdateText(a, k, c, by, t) ==
    LET existing == GetText(a, k)
        textItem == [key |-> k, content |-> c, approvedAt |-> ToISOString(t),
                     approvedBy |-> by,
                     version |-> IF existing # NullItem THEN PlusOne(existing.version)
                                 ELSE 1]
    IN [a EXCEPT !.texts = IF HasText(a, k)
                           THEN [@ EXCEPT ![IndexOfText(a, k)] = textItem]
                           ELSE Append(@, textItem),
                 !.lastUpdated = ToISOString(t)]

\* deleteText(key): what it returns, if (this.artifact.texts[key])
DeleteTextReturns(a, k) == Lookup(a, k) # NullItem

\* the lastUpdated that deleteText leaves behind (DeleteStampKept: were it not
\* stamped)
DeleteStampKept(a, t) == a.lastUpdated
DeleteStamp(a, t) == ToISOString(t)

\* deleteText(key) at clock value t: the artifact afterwards
DeleteText(a, k, t) ==
    IF DeleteTextReturns(a, k)
    THEN [a EXCEPT !.texts = SelectSeq(@, LAMBDA item : item.key # k),
                   !.lastUpdated = DeleteStamp(a, t)]
    ELSE a

NoMetadata == [version |-> Undefined, lastUpdated |-> Undefined, count |-> 0]
GetMetadata(a) ==
    [version |-> a.version, lastUpdated |-> a.lastUpdated, count |-> Len(a.texts)]

----------------------------------------------------------------------------
(* JSON.stringify(this.artifact, null, 2)                                    *)

RECURSIVE Join(_, _)
Join(strings, sep) ==
    IF Len(strings) = 0 THEN ""
    ELSE IF Len(strings) = 1 THEN strings[1]
    ELSE strings[1] \o sep \o Join(Tail(strings), sep)

\* a string field "name": "value"; a field that is undefined is left out
StringFieldJson(name, value) ==
    IF value = Undefined THEN << >>
    ELSE << "      " \o ToString(name) \o ": " \o ToString(value) >>

\* the version field: NaN is written as null
VersionFieldJson(v) ==
    IF v = NoVersion THEN << >>
    ELSE << "      \"version\": "
            \o (IF v \in {NaN, NullVersion} THEN "null" ELSE ToString(v)) >>

\* an item under its key, its fields in the order of the textItem literal
ItemJson(item) ==
    LET fields == StringFieldJson("key", item.key)
                  \o StringFieldJson("content", item.content)
                  \o StringFieldJson("approvedAt", item.approvedAt)
                  \o StringFieldJson("approvedBy", item.approvedBy)
                  \o VersionFieldJson(item.version)
    IN "    " \o ToString(item.key) \o ": "
       \o (IF fields = << >> THEN "{}" ELSE "{\n" \o Join(fields, ",\n") \o "\n    }")

\* toJsonString(): JSON.stringify(this.artifact, null, 2)
ToJsonString(a) ==
    "{\n  \"version\": " \o ToString(a.version) \o ",\n"
    \o "  \"lastUpdated\": " \o ToString(a.lastUpdated) \o ",\n"
    \o "  \"texts\": "
    \o (IF Len(a.texts) = 0 THEN "{}"
        ELSE "{\n" \o Join([i \in DOMAIN a.texts |-> ItemJson(a.texts[i])], ",\n")
             \o "\n  }")
    \o "\n}"

----------------------------------------------------------------------------
(* JSON.parse(jsonString), for the JSON an artifact is written in: objects,  *)
(* strings without escapes, whole numbers and null                           *)

\* a JSON value: a string (s), a number (n), an object (m: its members
\* [name, value] in the order of the text), or null
JsonValue(type, str, num, members) == [t |-> type, s |-> str, n |-> num, m |-> members]
JsonNull == JsonValue("null", "", 0, << >>)

\* JSON.parse threw a SyntaxError / read value, which ends before next
ParseFail == [ok |-> FALSE, value |-> JsonNull, next |-> 0]
Parsed(value, next) == [ok |-> TRUE, value |-> value, next |-> next]

CharAt(str, i) == IF i >= 1 /\ i <= Len(str) THEN SubSeq(str, i, i) ELSE ""

RECURSIVE SkipSpace(_, _)
SkipSpace(str, i) ==
    IF CharAt(str, i) \in {" ", "\n"} THEN SkipSpace(str, i + 1) ELSE i

RECURSIVE ClosingQuote(_, _)
ClosingQuote(str, i) ==
    IF i > Len(str) THEN 0
    ELSE IF CharAt(str, i) = "\"" THEN i
    ELSE ClosingQuote(str, i + 1)

Digits == <<"0", "1", "2", "3", "4", "5", "6", "7", "8", "9">>

\* the number whose digits start at i, after the digits that made acc
RECURSIVE ParseDigits(_, _, _)
ParseDigits(str, i, acc) ==
    IF \E d \in DOMAIN Digits : Digits[d] = CharAt(str, i)
    THEN ParseDigits(str, i + 1,
             acc * 10 + (CHOOSE d \in DOMAIN Digits : Digits[d] = CharAt(str, i)) - 1)
    ELSE Parsed(JsonValue("number", "", acc, << >>), i)

\* the string that starts with the quote at i
ParseString(str, i) ==
    LET j == ClosingQuote(str, i + 1) IN
    IF j = 0 THEN ParseFail
    ELSE Parsed(JsonValue("string", SubSeq(str, i + 1, j - 1), 0, << >>), j + 1)

RECURSIVE ParseValue(_, _)
RECURSIVE ParseMembers(_, _, _)
\* the value that starts at or after from
ParseValue(str, from) ==
    LET i == SkipSpace(str, from)
        c == CharAt(str, i)
    IN
    IF c = "\"" THEN ParseString(str, i)
    ELSE IF \E d \in DOMAIN Digits : Digits[d] = c THEN ParseDigits(str, i, 0)
    ELSE IF i + 3 <= Len(str) /\ SubSeq(str, i, i + 3) = "null"
         THEN Parsed(JsonNull, i + 4)
    ELSE IF c = "{" THEN ParseMembers(str, SkipSpace(str, i + 1), << >>)
    ELSE ParseFail

\* the members of an object from i on, after the members acc: the end of an
\* object without members, or a member (name, colon, value) and then a comma
\* and the next member, or the end of the object
ParseMembers(str, i, acc) ==
    LET name == ParseString(str, i)
        colon == SkipSpace(str, name.next)
        v == ParseValue(str, colon + 1)
        k == SkipSpace(str, v.next)
        members == Append(acc, [name |-> name.value.s, value |-> v.value])
    IN
    IF CharAt(str, i) = "}" /\ acc = << >>
    THEN Parsed(JsonValue("object", "", 0, << >>), i + 1)
    ELSE IF CharAt(str, i) # "\"" THEN ParseFail
    ELSE IF ~name.ok THEN ParseFail
    ELSE IF CharAt(str, colon) # ":" THEN ParseFail
    ELSE IF ~v.ok THEN ParseFail
    ELSE IF CharAt(str, k) = "," THEN ParseMembers(str, SkipSpace(str, k + 1), members)
    ELSE IF CharAt(str, k) = "}" THEN Parsed(JsonValue("object", "", 0, members), k + 1)
    ELSE ParseFail

\* JSON.parse(text): the whole text is one value
JsonParse(text) ==
    LET r == ParseValue(text, 1) IN
    IF r.ok /\ SkipSpace(text, r.next) = Len(text) + 1 THEN r ELSE ParseFail

HasMember(obj, name) == \E i \in DOMAIN obj.m : obj.m[i].name = name
Member(obj, name) == obj.m[CHOOSE i \in DOMAIN obj.m : obj.m[i].name = name].value

\* obj.name where a string is expected: undefined if it is not there
StringMember(obj, name) ==
    IF HasMember(obj, name) /\ Member(obj, name).t = "string" THEN Member(obj, name).s
    ELSE Undefined

\* record.version as it is in the document
VersionMember(obj) ==
    IF ~HasMember(obj, "version") THEN NoVersion
    ELSE IF Member(obj, "version").t = "number" THEN Member(obj, "version").n
    ELSE NullVersion

\* a record of the document as an item of the store (ItemOfDefaulted: were a
\* missing version given the default 1)
ItemOfDefaulted(obj) ==
    [key |-> StringMember(obj, "key"), content |-> StringMember(obj, "content"),
     approvedAt |-> StringMember(obj, "approvedAt"),
     approvedBy |-> StringMember(obj, "approvedBy"),
     version |-> IF VersionMember(obj) = NoVersion THEN 1 ELSE VersionMember(obj)]
ItemOf(obj) ==
    [key |-> StringMember(obj, "key"), content |-> StringMember(obj, "content"),
     approvedAt |-> StringMember(obj, "approvedAt"),
     approvedBy |-> StringMember(obj, "approvedBy"),
     version |-> VersionMember(obj)]

\* parsed.texts || {}: the records of the document, each under its key
TextsOf(parsed) ==
    IF HasMember(parsed, "texts") /\ Member(parsed, "texts").t = "object"
    THEN [i \in DOMAIN Member(parsed, "texts").m |->
              ItemOf(Member(parsed, "texts").m[i].value)]
    ELSE << >>

\* the lastUpdated of the catch branch of loadFromJson (MalformedKeepsStamp: were
\* the one held before kept)
MalformedKeepsStamp(a, t) == a.lastUpdated
MalformedStamp(a, t) == ToISOString(t)

\* the lastUpdated of a parsed document: parsed.lastUpdated || now
\* (LoadedStampFresh: were it always now)
LoadedStampFresh(parsed, t) == ToISOString(t)
LoadedStamp(parsed, t) ==
    IF Truthy(StringMember(parsed, "lastUpdated")) THEN StringMember(parsed, "lastUpdated")
    ELSE ToISOString(t)

\* the body of loadFromJson given what JSON.parse(jsonString) did (r): the catch
\* branch if it threw, or if parsed is null and parsed.version throws
LoadParsed(a, r, t) ==
    IF ~r.ok \/ r.value.t = "null"
    THEN [NewArtifact(t) EXCEPT !.lastUpdated = MalformedStamp(a, t)]
    ELSE [version |-> IF Truthy(StringMember(r.value, "version"))
                      THEN StringMember(r.value, "version") ELSE SchemaVersion,
          lastUpdated |-> LoadedStamp(r.value, t),
          texts |-> TextsOf(r.value)]

\* loadFromJson(jsonString) on the artifact a at clock value t: the artifact
\* afterwards
LoadFromJson(a, text, t) == LoadParsed(a, JsonParse(text), t)

----------------------------------------------------------------------------
(* A caller of the TextService *)

\* a call of a method: its arguments, what it returned (item, flag or text), and
\* what texts held under the key before the call (had, previous; for
\* loadFromJson, had: whether texts held any item)
NoCall ==
    [op |-> "-", key |-> Undefined, content |-> Undefined, approvedBy |-> Undefined,
     item |-> NullItem, flag |-> FALSE, text |-> "",
     had |-> FALSE, previous |-> NullItem]

\* the call of method op for key k on the artifact a
CallOf(op, a, k) ==
    [NoCall EXCEPT !.op = op, !.key = k, !.had = HasText(a, k),
                   !.previous = LookupOwn(a, k)]

----------------------------------------------------------------------------
(* TextController: requests and responses *)

InvalidBodyMsg == "Invalid request body"
TextNotFoundMsg == "Text not found"

StatusOk == 200
StatusMultiStatus == 207
StatusBadRequest == 400
StatusNotFound == 404

\* the :key of the requests: a key like any other, and one that is the name of a
\* property of Object.prototype
RequestKeys == {"k1", "constructor"}

\* the bodies of the PUT requests: without content, with an empty content, and
\* with a content and an approver
RequestBodies ==
    {[content |-> Undefined, approvedBy |-> Undefined],
     [content |-> "", approvedBy |-> "alice"],
     [content |-> "Hi", approvedBy |-> "alice"]}

\* updateTextSchema.safeParse(req.body).success: content is a string of length >= 1
ValidBody(c) == c # Undefined /\ c # ""

\* a request and the handler's const updatedText and const artifactJson
NoRequest ==
    [method |-> "-", key |-> Undefined, content |-> Undefined, approvedBy |-> Undefined,
     updatedText |-> NullItem, artifactJson |-> Undefined]
NoResponse ==
    [status |-> 0, success |-> FALSE, error |-> NoError, text |-> NullItem,
     deleted |-> FALSE, artifact |-> NoMetadata, hasGithubSync |-> FALSE,
     githubSync |-> NoResult]

\* res.status(status).json({success: false, error})
ErrorResponse(status, msg) == [NoResponse EXCEPT !.status = status, !.error = msg]

\* the status of a response with success: true: 207 if (githubResult &&
\* !githubResult.success), else 200 (SuccessStatusAlwaysOk: were it always 200)
SuccessStatusAlwaysOk(hasSync, githubResult) == StatusOk
SuccessStatus(hasSync, githubResult) ==
    IF hasSync /\ ~githubResult.success THEN StatusMultiStatus ELSE StatusOk

\* the response of updateText and deleteText after the mutation: the data, and
\* githubSync if (githubResult)
SuccessResponse(req, a, hasSync, githubResult) ==
    [NoResponse EXCEPT !.status = SuccessStatus(hasSync, githubResult),
                       !.success = TRUE,
                       !.text = req.updatedText,
                       !.deleted = (req.method = "DELETE"),
                       !.artifact = GetMetadata(a),
                       !.hasGithubSync = hasSync,
                       !.githubSync = githubResult]

\* the catch around syncContent: an error thrown becomes {success: false, error}
GithubResultOf(r) == IF r.thrown # NoError THEN FailureResult(r.thrown) ELSE r

----------------------------------------------------------------------------
(* The templates of the commit message and of the pull request               *)

\* the defaults of GITHUB_COMMIT_MESSAGE_TEMPLATE, GITHUB_PR_TITLE_TEMPLATE and
\* GITHUB_PR_BODY_TEMPLATE, which the constructor copies into this.config
CommitMessageTemplate == "Update text artifact for {key} - {timestamp}"
PrTitleTemplate == "Text Update: {key}"
PrBodyTemplate == "Automated text update for {key} at {timestamp}"

\* the index of the first occurrence of pattern in str at or after i, 0 if none
RECURSIVE IndexOf(_, _, _)
IndexOf(str, pattern, i) ==
    IF i + Len(pattern) - 1 > Len(str) THEN 0
    ELSE IF SubSeq(str, i, i + Len(pattern) - 1) = pattern THEN i
    ELSE IndexOf(str, pattern, i + 1)

\* what String.prototype.replace puts in for the match: the replacement string
\* from i on, in which $$ stands for $, $& for the match, $` for the text before
\* the match and $' for the text after it
RECURSIVE GetSubstitution(_, _, _, _, _)
GetSubstitution(replacement, i, matched, before, after) ==
    IF i > Len(replacement) THEN ""
    ELSE IF CharAt(replacement, i) = "$" /\ CharAt(replacement, i + 1) = "$"
         THEN "$" \o GetSubstitution(replacement, i + 2, matched, before, after)
    ELSE IF CharAt(replacement, i) = "$" /\ CharAt(replacement, i + 1) = "&"
         THEN matched \o GetSubstitution(replacement, i + 2, matched, before, after)
    ELSE IF CharAt(replacement, i) = "$" /\ CharAt(replacement, i + 1) = "`"
         THEN before \o GetSubstitution(replacement, i + 2, matched, before, after)
    ELSE IF CharAt(replacement, i) = "$" /\ CharAt(replacement, i + 1) = "'"
         THEN after \o GetSubstitution(replacement, i + 2, matched, before, after)
    ELSE CharAt(replacement, i)
         \o GetSubstitution(replacement, i + 1, matched, before, after)

\* str.replace(pattern, replacement) with a string as pattern: the first
\* occurrence alone is replaced
Replace(str, pattern, replacement) ==
    LET pos == IndexOf(str, pattern, 1)
        before == SubSeq(str, 1, pos - 1)
        after == SubSeq(str, pos + Len(pattern), Len(str))
    IN IF pos = 0 THEN str
       ELSE before \o GetSubstitution(replacement, 1, pattern, before, after) \o after

\* template.replace('{key}', key).replace('{timestamp}', timestamp)
\* (RenderKeyOnly: were the timestamp not put in)
RenderKeyOnly(template, k, stamp) == Replace(template, "{key}", k)
Render(template, k, stamp) ==
    Replace(Replace(template, "{key}", k), "{timestamp}", stamp)

\* the text of a text kept as <<template, key, time>>
TextOf(t) == Render(t[1], t[2], ToISOString(t[3]))

\* a rendering: its inputs and, once done, the text rendered
NoRendering ==
    [template |-> "", key |-> "", timestamp |-> "", text |-> "", done |-> FALSE]

----------------------------------------------------------------------------
\* no call has started and no request has arrived
InitCalls ==
    /\ branches = {}
    /\ prs = {}
    /\ now = 0
    /\ pc = [p \in Procs |-> "idle"]
    /\ key = [p \in Procs |-> "k1"]
    /\ newContent = [p \in Procs |-> "b1"]
    /\ retryCount = [p \in Procs |-> 0]
    /\ timestamp = [p \in Procs |-> 0]
    /\ branchName = [p \in Procs |-> NoBranch]
    /\ currentFile = [p \in Procs |-> Null]
    /\ baseTip = [p \in Procs |-> NoFile]
    /\ commitFetched = [p \in Procs |-> Null]
    /\ fileSha = [p \in Procs |-> NoSha]
    /\ caught = [p \in Procs |-> NoError]
    /\ result = [p \in Procs |-> NoResult]
    /\ log = [p \in Procs |-> << >>]
    /\ service = NoService
    /\ prMode = NotAsked
    /\ artifact = NewArtifact(0)
    /\ handler = [p \in Procs |-> "idle"]
    /\ request = [p \in Procs |-> NoRequest]
    /\ response = [p \in Procs |-> NoResponse]
    /\ handled = 0
    /\ returned = NoCall
    /\ allTexts = << >>
    /\ storeCalls = 0

\* the remote file does not exist yet, or it holds some content
Init ==
    /\ InitCalls
    /\ baseFile \in {NoFile, "b0"}
    /\ faultsLeft = MaxFaults
    /\ env = ConfiguredEnv
    /\ rendered = NoRendering
    /\ extWrites = 0

----------------------------------------------------------------------------
(* The remote repository: what each Octokit request answers and changes *)

BranchExists(name) == \E b \in branches : b.name = name
BranchFile(name) == (CHOOSE b \in branches : b.name = name).file

\* octokit.repos.getContent({path: targetPath, ref: config.branch})
ContentData(type, c) == [type |-> type, sha |-> ShaOf(c), content |-> Base64Encode(c)]
RemoteGetContent ==
    IF baseFile = NoFile THEN Rejected(NotFoundMsg)
    ELSE Resolved(ContentData("file", baseFile))

\* octokit.git.createRef({ref: refs/heads/name, sha: tip})
RemoteCreateRef(name) ==
    IF BranchExists(name) THEN Rejected(RefExistsMsg) ELSE Resolved(Null)

\* octokit.repos.createOrUpdateFileContents({path, content, sha?, branch: name}):
\* the write is conditioned on the sha of the file on that branch
RemotePutFile(name, sha) ==
    IF ~BranchExists(name) THEN Rejected(BranchMissingMsg)
    ELSE IF sha = NoSha
         THEN IF BranchFile(name) = NoFile THEN Resolved(Null) ELSE Rejected(ShaMissingMsg)
         ELSE IF BranchFile(name) # NoFile /\ sha = ShaOf(BranchFile(name))
              THEN Resolved(Null) ELSE Rejected(ShaMismatchMsg)

\* octokit.pulls.create({head: name, base: config.branch})
NextUrl == <<"pull", Cardinality(prs) + 1>>
RemoteCreatePull(name) ==
    IF BranchExists(name) THEN Resolved(NextUrl) ELSE Rejected(BranchMissingMsg)

\* octokit.git.deleteRef({ref: heads/name})
RemoteDeleteRef(name) ==
    IF BranchExists(name) THEN Resolved(Null) ELSE Rejected(RefMissingMsg)

\* the answer to a request: the remote's own, or a failure from outside
Answer(f, natural) == IF f = NoFault THEN natural ELSE Rejected(f)
AnswerContent(f, natural) ==
    IF f = DirectoryAnswer THEN Resolved(ContentData("dir", NoFile))
    ELSE IF f = SymlinkAnswer THEN Resolved(ContentData("symlink", NoFile))
    ELSE Answer(f, natural)

----------------------------------------------------------------------------
(* GitHubService: the decisions of the code *)

\* getCurrentFile's catch: null on Not Found, any other error rethrown
GetCurrentFileCaughtAllNull(msg) ==
    [threw |-> FALSE, msg |-> NoError, file |-> Null]
GetCurrentFileCaught(msg) ==
    IF IncludesNotFound(msg)
    THEN [threw |-> FALSE, msg |-> NoError, file |-> Null]
    ELSE [threw |-> TRUE, msg |-> msg, file |-> Null]

\* getCurrentFile: the sha and the decoded content of the file; the errors it
\* throws itself for a directory and for what is no file pass its own catch
GetCurrentFile(resp) ==
    IF ~resp.ok THEN GetCurrentFileCaught(resp.msg)
    ELSE IF resp.val.type = "dir" THEN GetCurrentFileCaught(PathIsDirectoryMsg)
    ELSE IF resp.val.type # "file" THEN GetCurrentFileCaught(PathNotFileMsg)
    ELSE [threw |-> FALSE, msg |-> NoError,
          file |-> [sha |-> resp.val.sha, content |-> Base64Decode(resp.val.content)]]

\* currentFile && currentFile.content === newContent
ContentIdenticalInverted(cf, body) == cf # Null /\ cf.content # body
ContentIdentical(cf, body) == cf # Null /\ cf.content = body

\* currentFile?.sha
OptSha(cf) == IF cf = Null THEN NoSha ELSE cf.sha

\* if (baseSha): commitFile uses the sha it was given and fetches none itself
HasBaseSha(baseSha) == baseSha # NoSha

\* commitFile's let fileSha when it fetched the file itself: currentFile?.sha
CommitFetchedShaNone(cf) == NoSha
CommitFetchedSha(cf) == OptSha(cf)

\* commitFile's catch: a sha mismatch becomes the RACE_CONDITION error, any other
\* error is rethrown (CommitFileErrorRethrown: were every error rethrown)
CommitFileErrorRethrown(msg) == msg
CommitFileError(msg) == IF IncludesShaMismatch(msg) THEN RaceConditionMsg ELSE msg

\* try { await this.deleteBranch(branchName) } catch (cleanupError) { }: the
\* error of the cleanup never leaves the catch block
CleanupThrowsUnguarded(resp) == ~resp.ok
CleanupThrows(resp) == FALSE

\* the newContent that the retry is called with: the parameter of the running
\* attempt (RetryBodyRecomputed: were it serialized anew from the store)
RetryBodyRecomputed(p) == ToJsonString(artifact)
RetryBody(p) == newContent[p]

\* syncContent's catch, after the cleanup: retry, or what is returned
ShouldRetryTwice(msg, rc) == IncludesRaceCondition(msg) /\ rc < 2
ShouldRetry(msg, rc) == IncludesRaceCondition(msg) /\ rc < 1
CatchResult(msg) ==
    IF IncludesRaceCondition(msg) THEN FailureResult(RetryFailedMsg)
    ELSE FailureResult(msg)

----------------------------------------------------------------------------
(* syncContent, one action per awaited request *)

\* entering syncContent(k, c, rc): timestamp and branchName are taken from the
\* clock, which has advanced by dt since it was last read (not past MaxClock)
Enter(p, k, c, rc, dt) ==
    /\ now' = IF now + dt <= MaxClock THEN now + dt ELSE now
    /\ key' = [key EXCEPT ![p] = k]
    /\ newContent' = [newContent EXCEPT ![p] = c]
    /\ retryCount' = [retryCount EXCEPT ![p] = rc]
    /\ timestamp' = [timestamp EXCEPT ![p] = now']
    /\ branchName' = [branchName EXCEPT ![p] = BranchNameOf(k, now')]
    /\ currentFile' = [currentFile EXCEPT ![p] = Null]
    /\ baseTip' = [baseTip EXCEPT ![p] = NoFile]
    /\ commitFetched' = [commitFetched EXCEPT ![p] = Null]
    /\ fileSha' = [fileSha EXCEPT ![p] = NoSha]
    /\ caught' = [caught EXCEPT ![p] = NoError]
    /\ pc' = [pc EXCEPT ![p] = "getCurrentFile"]

\* the caller starts syncContent(key, newContent)
SyncStart(p) ==
    /\ pc[p] = "idle"
    /\ \E k \in Keys, c \in Bodies, dt \in {0, 1} : Enter(p, k, c, 0, dt)
    /\ UNCHANGED <<remoteVars, extWrites, faultsLeft, result, log>>
    /\ UNCHANGED apiVars

\* an error thrown inside the try block: on to the cleanup of the catch block
\* (ThrowIgnored: were the error dropped and the try block gone on with)
ThrowIgnored(p, msg) ==
    /\ caught' = caught
    /\ pc' = [pc EXCEPT ![p] = IF pc[p] = "createPullRequest" THEN "deleteBranch"
                                ELSE "createPullRequest"]
\* (ThrowSkipsCleanup: were the try block started over without the cleanup)
ThrowSkipsCleanup(p, msg) ==
    /\ caught' = [caught EXCEPT ![p] = msg]
    /\ pc' = [pc EXCEPT ![p] = "getCurrentFile"]
Throw(p, msg) ==
    /\ caught' = [caught EXCEPT ![p] = msg]
    /\ pc' = [pc EXCEPT ![p] = "deleteBranch"]

\* the time put into the pull request's title and body: the const timestamp of
\* the running attempt (PrStampOfFirstAttempt: were it that of the first attempt)
PrStampOfFirstAttempt(p) == log[p][1].branch[3]
PrStamp(p) == timestamp[p]

\* const commitMessage, prTitle and prBody: the templates rendered with the key
\* and the const timestamp of the running attempt
CommitMessage(p) == <<CommitMessageTemplate, key[p], timestamp[p]>>
PrTitle(p) == <<PrTitleTemplate, key[p], PrStamp(p)>>
PrBody(p) == <<PrBodyTemplate, key[p], PrStamp(p)>>

\* the baseSha that syncContent hands to commitFile: currentFile?.sha
CommitBaseShaStale(p) == OptSha(log[p][1].file)
CommitBaseSha(p) == OptSha(currentFile[p])

\* const currentFile = await this.getCurrentFile(); the comparison
SyncGetCurrentFile(p) ==
    /\ pc[p] = "getCurrentFile"
    /\ \E f \in ContentFaultChoices :
         LET resp == AnswerContent(f, RemoteGetContent)
             r == GetCurrentFile(resp)
         IN
         /\ CountFault(f)
         /\ Logged(p, [Entry(p, "getCurrentFile", r.msg)
                         EXCEPT !.file = r.file, !.resp = resp])
         /\ IF r.threw
            THEN /\ Throw(p, r.msg)
                 /\ UNCHANGED <<currentFile, result>>
            ELSE /\ currentFile' = [currentFile EXCEPT ![p] = r.file]
                 /\ IF ContentIdentical(r.file, newContent[p])
                    THEN /\ result' = [result EXCEPT ![p] = NoChangeResult]
                         /\ pc' = [pc EXCEPT ![p] = "done"]
                    ELSE /\ pc' = [pc EXCEPT ![p] = "getBranch"]
                         /\ UNCHANGED result
                 /\ UNCHANGED caught
    /\ UNCHANGED <<remoteVars, extWrites, now, key, newContent, retryCount,
                   timestamp, branchName, baseTip, commitFetched, fileSha>>
    /\ UNCHANGED apiVars

\* createRef's sha: baseBranch.data.commit.sha, the tip that getBranch returned
\* (CreateRefShaLatest: were it the tip of the base branch at the time of createRef)
CreateRefShaLatest(p) == baseFile
CreateRefSha(p) == baseTip[p]

\* createBranch: await octokit.repos.getBranch(base)
CreateBranchGetBranch(p) ==
    /\ pc[p] = "getBranch"
    /\ \E f \in FaultChoices :
         /\ CountFault(f)
         /\ IF f = NoFault
            THEN /\ baseTip' = [baseTip EXCEPT ![p] = baseFile]
                 /\ pc' = [pc EXCEPT ![p] = "createRef"]
                 /\ UNCHANGED <<caught, log>>
            ELSE /\ Throw(p, f)
                 /\ Logged(p, Entry(p, "createBranch", f))
                 /\ UNCHANGED baseTip
    /\ UNCHANGED <<remoteVars, extWrites, now, key, newContent, retryCount,
                   timestamp, branchName, currentFile, commitFetched, fileSha,
                   result>>
    /\ UNCHANGED apiVars

\* createBranch: await octokit.git.createRef(branchName, tip); then the start of
\* commitFile(branchName, newContent, message, currentFile?.sha)
CreateBranchCreateRef(p) ==
    /\ pc[p] = "createRef"
    /\ \E f \in FaultChoices :
         LET resp == Answer(f, RemoteCreateRef(branchName[p])) IN
         /\ CountFault(f)
         /\ Logged(p, Entry(p, "createBranch", resp.msg))
         /\ IF resp.ok
            THEN /\ branches' = branches \cup
                        {[name |-> branchName[p], file |-> CreateRefSha(p)]}
                 /\ IF HasBaseSha(CommitBaseSha(p))
                    THEN /\ fileSha' = [fileSha EXCEPT ![p] = CommitBaseSha(p)]
                         /\ pc' = [pc EXCEPT ![p] = "putFile"]
                    ELSE /\ pc' = [pc EXCEPT ![p] = "commitGetFile"]
                         /\ UNCHANGED fileSha
                 /\ UNCHANGED caught
            ELSE /\ Throw(p, resp.msg)
                 /\ UNCHANGED <<branches, fileSha>>
    /\ UNCHANGED <<baseFile, prs, extWrites, now, key, newContent, retryCount,
                   timestamp, branchName, currentFile, baseTip, commitFetched,
                   result>>
    /\ UNCHANGED apiVars

\* commitFile without baseSha: const currentFile = await this.getCurrentFile()
CommitFileGetFile(p) ==
    /\ pc[p] = "commitGetFile"
    /\ \E f \in ContentFaultChoices :
         LET r == GetCurrentFile(AnswerContent(f, RemoteGetContent)) IN
         /\ CountFault(f)
         /\ IF r.threw
            THEN /\ Throw(p, CommitFileError(r.msg))
                 /\ Logged(p, [Entry(p, "commitFile", CommitFileError(r.msg))
                                 EXCEPT !.arg = CommitBaseSha(p),
                                        !.message = CommitMessage(p)])
                 /\ UNCHANGED <<commitFetched, fileSha>>
            ELSE /\ commitFetched' = [commitFetched EXCEPT ![p] = r.file]
                 /\ fileSha' = [fileSha EXCEPT ![p] = CommitFetchedSha(r.file)]
                 /\ pc' = [pc EXCEPT ![p] = "putFile"]
                 /\ UNCHANGED <<caught, log>>
    /\ UNCHANGED <<remoteVars, extWrites, now, key, newContent, retryCount,
                   timestamp, branchName, currentFile, baseTip, result>>
    /\ UNCHANGED apiVars

\* commitFile: await octokit.repos.createOrUpdateFileContents(..., sha: fileSha)
CommitFilePut(p) ==
    /\ pc[p] = "putFile"
    /\ \E f \in FaultChoices :
         LET resp == Answer(f, RemotePutFile(branchName[p], fileSha[p]))
             e == [Entry(p, "commitFile", CommitFileError(resp.msg))
                     EXCEPT !.arg = CommitBaseSha(p), !.wrote = TRUE,
                            !.sha = fileSha[p], !.file = commitFetched[p],
                            !.resp = resp, !.message = CommitMessage(p)]
         IN
         /\ CountFault(f)
         /\ Logged(p, e)
         /\ IF resp.ok
            THEN /\ branches' = {IF b.name = branchName[p]
                                 THEN [b EXCEPT !.file = newContent[p]] ELSE b
                                 : b \in branches}
                 /\ pc' = [pc EXCEPT ![p] = "createPullRequest"]
                 /\ UNCHANGED caught
            ELSE /\ Throw(p, CommitFileError(resp.msg))
                 /\ UNCHANGED branches
    /\ UNCHANGED <<baseFile, prs, extWrites, now, key, newContent, retryCount,
                   timestamp, branchName, currentFile, baseTip, commitFetched,
                   fileSha, result>>
    /\ UNCHANGED apiVars

\* const prUrl = await this.createPullRequest(branchName, prTitle, prBody)
SyncCreatePullRequest(p) ==
    /\ pc[p] = "createPullRequest"
    /\ \E f \in FaultChoices :
         LET resp == Answer(f, RemoteCreatePull(branchName[p])) IN
         /\ CountFault(f)
         /\ IF resp.ok
            THEN /\ prs' = prs \cup {[head |-> branchName[p], url |-> resp.val]}
                 /\ result' = [result EXCEPT ![p] = SuccessResult(resp.val)]
                 /\ pc' = [pc EXCEPT ![p] = "done"]
                 /\ Logged(p, [Entry(p, "createPullRequest", NoError)
                                 EXCEPT !.url = resp.val, !.title = PrTitle(p),
                                        !.body = PrBody(p)])
                 /\ UNCHANGED caught
            ELSE /\ Throw(p, resp.msg)
                 /\ Logged(p, [Entry(p, "createPullRequest", resp.msg)
                                 EXCEPT !.title = PrTitle(p), !.body = PrBody(p)])
                 /\ UNCHANGED <<prs, result>>
    /\ UNCHANGED <<baseFile, branches, extWrites, now, key, newContent, retryCount,
                   timestamp, branchName, currentFile, baseTip, commitFetched,
                   fileSha>>
    /\ UNCHANGED apiVars

\* the call is over: its promise is settled
Finish(p, r) ==
    /\ result' = [result EXCEPT ![p] = r]
    /\ pc' = [pc EXCEPT ![p] = "done"]
    /\ UNCHANGED <<now, key, newContent, retryCount, timestamp, branchName,
                   currentFile, baseTip, commitFetched, fileSha, caught>>

\* the catch block: await this.deleteBranch(branchName) with its error ignored,
\* then the retry (syncContent(key, newContent, retryCount + 1)) or the failure
SyncCatch(p) ==
    /\ pc[p] = "deleteBranch"
    /\ \E f \in FaultChoices :
         LET resp == Answer(f, RemoteDeleteRef(branchName[p])) IN
         /\ CountFault(f)
         /\ Logged(p, Entry(p, "deleteBranch", resp.msg))
         /\ branches' = IF resp.ok
                        THEN {b \in branches : b.name # branchName[p]}
                        ELSE branches
         /\ IF CleanupThrows(resp)
            THEN Finish(p, ThrownResult(resp.msg))
            ELSE IF ShouldRetry(caught[p], retryCount[p])
                 THEN /\ \E dt \in {0, 1} :
                           Enter(p, key[p], RetryBody(p), retryCount[p] + 1, dt)
                      /\ UNCHANGED result
                 ELSE Finish(p, CatchResult(caught[p]))
    /\ UNCHANGED <<baseFile, prs, extWrites>>
    /\ UNCHANGED apiVars

\* another writer changes targetPath on the base branch (a merge, a push)
ExternalWrite ==
    /\ extWrites < MaxExternal
    /\ \E c \in Contents : c # baseFile /\ baseFile' = c
    /\ extWrites' = extWrites + 1
    /\ UNCHANGED <<branches, prs, faultsLeft, now, pc, key, newContent, retryCount,
                   timestamp, branchName, currentFile, baseTip, commitFetched,
                   fileSha, caught, result, log>>
    /\ UNCHANGED apiVars

SyncStep(p) ==
    \/ SyncGetCurrentFile(p)
    \/ CreateBranchGetBranch(p)
    \/ CreateBranchCreateRef(p)
    \/ CommitFileGetFile(p)
    \/ CommitFilePut(p)
    \/ SyncCreatePullRequest(p)
    \/ SyncCatch(p)

\* one syncContent call against a remote that other writers change and whose
\* requests may fail
Next ==
    \/ SyncStart(Caller)
    \/ SyncStep(Caller)
    \/ ExternalWrite

Spec == Init /\ [][Next]_vars

\* every remote request eventually returns or fails
FairSpec == Spec /\ WF_vars(SyncStep(Caller))

\* concurrent syncContent calls against a remote whose requests fail only for
\* the remote's own reasons
InitConc ==
    /\ InitCalls
    /\ baseFile \in {NoFile, "b0"}
    /\ faultsLeft = 0
    /\ env = ConfiguredEnv
    /\ rendered = NoRendering
    /\ extWrites = 0

NextConc ==
    \/ \E p \in Procs : SyncStart(p)
    \/ \E p \in Procs : SyncStep(p)
    \/ ExternalWrite

SpecConc == InitConc /\ [][NextConc]_vars

\* one syncContent call against a remote that other writers change and whose
\* requests fail only for the remote's own reasons
SpecNoFaults == InitConc /\ [][Next]_vars

----------------------------------------------------------------------------
(* TextController: updateText and deleteText.  A handler runs without        *)
(* interruption up to its await of syncContent and again after it.           *)

\* the clock dt after it was last read (not past MaxClock)
ClockAfter(dt) == IF now + dt <= MaxClock THEN now + dt ELSE now

\* a request arrives at handler p, which starts with no syncContent call of its own
Arrive(p, req) ==
    /\ handler[p] # "awaitSync"
    /\ handled < MaxRequests
    /\ handled' = handled + 1
    /\ request' = [request EXCEPT ![p] = req]
    /\ log' = [log EXCEPT ![p] = << >>]
    /\ result' = [result EXCEPT ![p] = NoResult]
    /\ UNCHANGED <<remoteVars, extWrites, faultsLeft, env, storeVars, rendered>>

\* the handler sends its response without having called syncContent: nothing is
\* left of the syncContent call of an earlier request of this handler
RespondNoSync(p, resp) ==
    /\ response' = [response EXCEPT ![p] = resp]
    /\ handler' = [handler EXCEPT ![p] = "responded"]
    /\ pc' = [pc EXCEPT ![p] = "idle"]
    /\ key' = [key EXCEPT ![p] = "k1"]
    /\ newContent' = [newContent EXCEPT ![p] = "b1"]
    /\ retryCount' = [retryCount EXCEPT ![p] = 0]
    /\ timestamp' = [timestamp EXCEPT ![p] = 0]
    /\ branchName' = [branchName EXCEPT ![p] = NoBranch]
    /\ currentFile' = [currentFile EXCEPT ![p] = Null]
    /\ baseTip' = [baseTip EXCEPT ![p] = NoFile]
    /\ commitFetched' = [commitFetched EXCEPT ![p] = Null]
    /\ fileSha' = [fileSha EXCEPT ![p] = NoSha]
    /\ caught' = [caught EXCEPT ![p] = NoError]

\* a request refused before any mutation: nothing but the response
Refuse(p, status, msg) ==
    /\ RespondNoSync(p, ErrorResponse(status, msg))
    /\ UNCHANGED <<now, artifact, service, prMode>>

\* const artifactJson = this.textService.toJsonString() after the mutation that
\* left the artifact a (ArtifactJsonBefore: were it taken before the mutation)
ArtifactJsonBefore(a) == ToJsonString(artifact)
ArtifactJson(a) == ToJsonString(a)

\* after the mutation at clock value ClockAfter(dt), which left the artifact a:
\* const artifactJson = this.textService.toJsonString(); then, if the PR mode is
\* enabled, new GitHubService(this.env) and await syncContent(key, artifactJson);
\* else the response at once
SyncOrRespond(p, req, a, dt) ==
    /\ artifact' = a
    /\ prMode' = Asked(IsGitHubPRModeEnabled(env))
    /\ IF IsGitHubPRModeEnabled(env)
       THEN /\ service' = NewGitHubService(env)
            /\ IF NewGitHubService(env).constructed
               THEN /\ Enter(p, req.key, req.artifactJson, 0, dt)
                    /\ handler' = [handler EXCEPT ![p] = "awaitSync"]
                    /\ response' = [response EXCEPT ![p] = NoResponse]
               ELSE /\ now' = ClockAfter(dt)
                    /\ RespondNoSync(p, SuccessResponse(req, a, TRUE,
                                        FailureResult(NewGitHubService(env).thrown)))
       ELSE /\ now' = ClockAfter(dt)
            /\ RespondNoSync(p, SuccessResponse(req, a, FALSE, NoResult))
            /\ UNCHANGED service

\* PUT /api/texts/:key up to the await
UpdateTextRequest(p) ==
    \E k \in RequestKeys, body \in RequestBodies, dt \in {0, 1} :
        LET a == UpdateText(artifact, k, body.content, body.approvedBy, ClockAfter(dt))
            req == [method |-> "PUT", key |-> k, content |-> body.content,
                    approvedBy |-> body.approvedBy,
                    updatedText |-> IF ValidBody(body.content) THEN GetText(a, k)
                                    ELSE NullItem,
                    artifactJson |-> IF ValidBody(body.content) THEN ArtifactJson(a)
                                     ELSE Undefined]
        IN
        /\ Arrive(p, req)
        /\ IF ~ValidBody(body.content)
           THEN Refuse(p, StatusBadRequest, InvalidBodyMsg)
           ELSE SyncOrRespond(p, req, a, dt)

\* DELETE /api/texts/:key up to the await
DeleteTextRequest(p) ==
    \E k \in RequestKeys, dt \in {0, 1} :
        LET a == DeleteText(artifact, k, ClockAfter(dt))
            req == [NoRequest EXCEPT
                        !.method = "DELETE", !.key = k,
                        !.artifactJson = IF DeleteTextReturns(artifact, k)
                                         THEN ArtifactJson(a) ELSE Undefined]
        IN
        /\ Arrive(p, req)
        /\ IF ~DeleteTextReturns(artifact, k)
           THEN Refuse(p, StatusNotFound, TextNotFoundMsg)
           ELSE SyncOrRespond(p, req, a, dt)

\* either handler after its await of syncContent: the response
RespondAfterSync(p) ==
    /\ handler[p] = "awaitSync"
    /\ pc[p] = "done"
    /\ response' = [response EXCEPT ![p] =
           SuccessResponse(request[p], artifact, TRUE, GithubResultOf(result[p]))]
    /\ handler' = [handler EXCEPT ![p] = "responded"]
    /\ UNCHANGED <<remoteVars, extWrites, faultsLeft, now, pc, key, newContent,
                   retryCount, timestamp, branchName, currentFile, baseTip,
                   commitFetched, fileSha, caught, result, log, env, service, prMode,
                   artifact, request, handled, storeVars, rendered>>

\* the artifact that an earlier run of the server left in the remote file
SyncedArtifact == UpdateText(NewArtifact(0), "k1", "Hi", "alice", 0)

\* requests handled one at a time by a server started with any configuration,
\* against a remote whose requests may fail and whose file does not exist yet or
\* holds an artifact
InitApi ==
    /\ InitCalls
    /\ baseFile \in {NoFile, ToJsonString(SyncedArtifact)}
    /\ faultsLeft = MaxFaults
    /\ env \in Envs
    /\ rendered = NoRendering
    /\ extWrites = 0

NextApi ==
    \/ UpdateTextRequest(Caller)
    \/ DeleteTextRequest(Caller)
    \/ SyncStep(Caller)
    \/ RespondAfterSync(Caller)

SpecApi == InitApi /\ [][NextApi]_vars

\* requests handled at the same time by a server with the PR mode configured,
\* against a remote whose file does not exist yet or holds an artifact, that
\* another writer changes once more and whose requests fail only for the
\* remote's own reasons
InitApiConc ==
    /\ InitCalls
    /\ baseFile \in {NoFile, ToJsonString(SyncedArtifact)}
    /\ faultsLeft = 0
    /\ env = ConfiguredEnv
    /\ rendered = NoRendering
    /\ extWrites = MaxExternal - 1

NextApiConc ==
    \/ \E p \in Procs : UpdateTextRequest(p)
    \/ \E p \in Procs : DeleteTextRequest(p)
    \/ \E p \in Procs : SyncStep(p)
    \/ \E p \in Procs : RespondAfterSync(p)
    \/ ExternalWrite

SpecApiConc == InitApiConc /\ [][NextApiConc]_vars

----------------------------------------------------------------------------
(* The configuration by itself: validateEnv(), isGitHubPRModeEnabled(env) and  *)
(* new GitHubService(env)                                                     *)

syncVars == <<baseFile, branches, prs, extWrites, faultsLeft, now, pc, key, newContent,
              retryCount, timestamp, branchName, currentFile, baseTip, commitFetched,
              fileSha, caught, result, log>>

\* validateEnv(): the environment of the process may hold anything
ValidateEnv ==
    /\ env' \in Envs
    /\ UNCHANGED <<syncVars, service, prMode, artifact, handler, request, response,
                   handled, storeVars, rendered>>

ConstructService ==
    /\ service' = NewGitHubService(env)
    /\ UNCHANGED <<syncVars, env, prMode, artifact, handler, request, response, handled,
                   storeVars, rendered>>

CheckPRMode ==
    /\ prMode' = Asked(IsGitHubPRModeEnabled(env))
    /\ UNCHANGED <<syncVars, env, service, artifact, handler, request, response,
                   handled, storeVars, rendered>>

NextConfig == ValidateEnv \/ ConstructService \/ CheckPRMode

SpecConfig == InitApi /\ [][NextConfig]_vars

----------------------------------------------------------------------------
(* The TextService by itself: a caller that calls its methods in any order   *)
(* and changes the mapping that getAllTexts returned                          *)

StoreKeys == {"k1", "constructor"}

\* texts that are no JSON
MalformedTexts == {"invalid json", "{\"version\": \"1.0.0\""}

\* documents: an empty one, one without version and lastUpdated whose record
\* lacks approvedAt, approvedBy and version, and a full one
SparseDocument == "{\"texts\":{\"k1\":{\"key\":\"k1\",\"content\":\"Hi\"}}}"
FullDocument ==
    "{\"version\":\"2.0.0\",\"lastUpdated\":" \o ToString(ToISOString(0))
    \o ",\"texts\":{\"k2\":{\"key\":\"k2\",\"content\":\"Yo\",\"approvedAt\":"
    \o ToString(ToISOString(0)) \o ",\"approvedBy\":\"bob\",\"version\":2}}}"
Documents == {"{}", SparseDocument, FullDocument}

\* what no method of the TextService touches
outsideVars ==
    <<remoteVars, extWrites, faultsLeft, pc, key, newContent, retryCount, timestamp,
      branchName, currentFile, baseTip, commitFetched, fileSha, caught, result, log,
      env, service, prMode, handler, request, response, handled, rendered>>

\* one more step of the caller, which ends with the call r
Called(r) ==
    /\ storeCalls < MaxCalls
    /\ storeCalls' = storeCalls + 1
    /\ returned' = r
    /\ UNCHANGED outsideVars

\* the mapping of the caller after the store replaced or removed its object for
\* key k: the entry of the mapping still holds the old object, which the store
\* shares no longer
Unshared(k) ==
    [i \in DOMAIN allTexts |->
        IF allTexts[i].key = k THEN [allTexts[i] EXCEPT !.shared = FALSE]
        ELSE allTexts[i]]

\* updateText(k, c, by)
StoreUpdateText ==
    \E k \in StoreKeys, c \in {"Hi", "Yo"}, by \in {Undefined, "alice"}, dt \in {0, 1} :
        /\ now' = ClockAfter(dt)
        /\ artifact' = UpdateText(artifact, k, c, by, now')
        /\ Called([CallOf("updateText", artifact, k) EXCEPT
                       !.content = c, !.approvedBy = by, !.item = LookupOwn(artifact', k)])
        /\ allTexts' = Unshared(k)

\* deleteText(k)
StoreDeleteText ==
    \E k \in StoreKeys, dt \in {0, 1} :
        /\ now' = ClockAfter(dt)
        /\ artifact' = DeleteText(artifact, k, now')
        /\ Called([CallOf("deleteText", artifact, k) EXCEPT
                       !.flag = DeleteTextReturns(artifact, k)])
        /\ allTexts' = Unshared(k)

\* getText(k)
StoreGetText ==
    \E k \in StoreKeys :
        /\ Called([CallOf("getText", artifact, k) EXCEPT !.item = GetText(artifact, k)])
        /\ UNCHANGED <<now, artifact, allTexts>>

\* getAllTexts(): { ...this.artifact.texts }, a new object whose entries hold the
\* very item objects of the store (shared)
GetAllTexts(a) ==
    [i \in DOMAIN a.texts |-> [key |-> a.texts[i].key, item |-> a.texts[i], shared |-> TRUE]]

StoreGetAllTexts ==
    /\ allTexts' = GetAllTexts(artifact)
    /\ Called([NoCall EXCEPT !.op = "getAllTexts"])
    /\ UNCHANGED <<now, artifact>>

\* the caller changes a field of an item it reached through the mapping:
\* allTexts[k].content = c.  The item is an object; the store sees the change
\* if it holds that object
CallerChangesItem ==
    \E i \in DOMAIN allTexts, c \in {"changed"} :
        /\ allTexts' = [allTexts EXCEPT ![i].item.content = c]
        /\ artifact' =
              IF allTexts[i].shared
              THEN [artifact EXCEPT
                        !.texts[IndexOfText(artifact, allTexts[i].key)].content = c]
              ELSE artifact
        /\ Called([NoCall EXCEPT !.op = "change item", !.key = allTexts[i].key])
        /\ UNCHANGED now

\* the caller adds or replaces an entry of the mapping: allTexts[k] = {...}, an
\* item object that the caller made
CallerPutsEntry ==
    \E k \in StoreKeys :
        LET entry == [key |-> k, shared |-> FALSE,
                      item |-> [key |-> k, content |-> "mine", approvedAt |-> Undefined,
                                approvedBy |-> Undefined, version |-> 1]]
        IN
        /\ allTexts' =
              IF \E i \in DOMAIN allTexts : allTexts[i].key = k
              THEN [i \in DOMAIN allTexts |->
                       IF allTexts[i].key = k THEN entry ELSE allTexts[i]]
              ELSE Append(allTexts, entry)
        /\ Called([NoCall EXCEPT !.op = "put entry", !.key = k])
        /\ UNCHANGED <<now, artifact>>

\* the caller removes an entry of the mapping: delete allTexts[k]
CallerRemovesEntry ==
    \E i \in DOMAIN allTexts :
        /\ allTexts' = SelectSeq(allTexts, LAMBDA e : e.key # allTexts[i].key)
        /\ Called([NoCall EXCEPT !.op = "remove entry", !.key = allTexts[i].key])
        /\ UNCHANGED <<now, artifact>>

\* toJsonString()
StoreToJsonString ==
    /\ Called([NoCall EXCEPT !.op = "toJsonString", !.text = ToJsonString(artifact)])
    /\ UNCHANGED <<now, artifact, allTexts>>

\* loadFromJson(text) of a malformed text, of a document, or of the text that
\* toJsonString just returned; it makes a new texts object
StoreLoadFromJson ==
    \E text \in MalformedTexts \cup Documents
                \cup (IF returned.op = "toJsonString" THEN {returned.text} ELSE {}),
       dt \in {0, 1} :
        /\ now' = ClockAfter(dt)
        /\ artifact' = LoadFromJson(artifact, text, now')
        /\ Called([NoCall EXCEPT !.op = "loadFromJson", !.text = text,
                                 !.had = (artifact.texts # << >>)])
        /\ allTexts' = [i \in DOMAIN allTexts |-> [allTexts[i] EXCEPT !.shared = FALSE]]

InitStore ==
    /\ InitCalls
    /\ baseFile = NoFile
    /\ faultsLeft = 0
    /\ env = ConfiguredEnv
    /\ rendered = NoRendering
    /\ extWrites = 0

\* the items of the store and the mapping of getAllTexts
NextStore ==
    \/ StoreUpdateText
    \/ StoreDeleteText
    \/ StoreGetText
    \/ StoreGetAllTexts
    \/ CallerChangesItem
    \/ CallerPutsEntry
    \/ CallerRemovesEntry

SpecStore == InitStore /\ [][NextStore]_vars

\* the artifact written as JSON and read back
NextJson ==
    \/ StoreUpdateText
    \/ StoreDeleteText
    \/ StoreToJsonString
    \/ StoreLoadFromJson

SpecJson == InitStore /\ [][NextJson]_vars

----------------------------------------------------------------------------
(* The rendering by itself: any of some templates rendered with any of some   *)
(* keys                                                                       *)

\* the default templates, and templates with a placeholder twice, with an
\* unknown placeholder, and with none
Templates ==
    {CommitMessageTemplate, PrTitleTemplate, PrBodyTemplate,
     "{key}/{key}", "{timestamp} {key} {timestamp}", "{unknown} {key}", "fixed text"}

\* keys: req.params.key is any string
RenderKeys == {"k1", "greeting", "{timestamp}", "$&", "a$$b"}

InitRender ==
    /\ InitCalls
    /\ baseFile = NoFile
    /\ faultsLeft = 0
    /\ env = ConfiguredEnv
    /\ rendered \in [template : Templates, key : RenderKeys,
                     timestamp : {ToISOString(0), ToISOString(1)},
                     text : {""}, done : {FALSE}]
    /\ extWrites = 0

\* template.replace('{key}', key).replace('{timestamp}', timestamp)
RenderTemplate ==
    /\ ~rendered.done
    /\ rendered' = [rendered EXCEPT
                       !.text = Render(rendered.template, rendered.key,
                                       rendered.timestamp),
                       !.done = TRUE]
    /\ UNCHANGED <<syncVars, env, service, prMode, artifact, handler, request,
                   response, handled, storeVars>>

SpecRender == InitRender /\ [][RenderTemplate]_vars

----------------------------------------------------------------------------
(* Reading a call's log *)

Done(p) == pc[p] = "done"
Calls(p, op) == {i \in DOMAIN log[p] : log[p][i].op = op}
CallsAt(p, op, a) == {i \in Calls(p, op) : log[p][i].att = a}
Count(p, op) == Cardinality(Calls(p, op))

\* the commit of attempt a threw commitFile's conflict error / returned normally
CommitConflict(p, a) ==
    \E i \in CallsAt(p, "commitFile", a) : log[p][i].res = RaceConditionMsg
CommitOk(p, a) == \E i \in CallsAt(p, "commitFile", a) : log[p][i].res = NoError
PullRequestOk(p, a) ==
    \E i \in CallsAt(p, "createPullRequest", a) : log[p][i].res = NoError

\* the fetch at the start of attempt a returned (a file, or null)
Fetched(p, a) == \E i \in CallsAt(p, "getCurrentFile", a) : log[p][i].res = NoError
FetchedFile(p, a) ==
    log[p][CHOOSE i \in CallsAt(p, "getCurrentFile", a) : TRUE].file

IsNoChange(r) == r.thrown = NoError /\ r.success /\ r.noChanges
IsSuccess(r) == r.thrown = NoError /\ r.success /\ ~r.noChanges /\ r.prUrl # NoUrl
IsFailure(r) == r.thrown = NoError /\ ~r.success /\ r.error # NoError
OutcomeKinds(r) ==
    {k \in {"NoChange", "Success", "Failure"} :
        \/ k = "NoChange" /\ IsNoChange(r)
        \/ k = "Success" /\ IsSuccess(r)
        \/ k = "Failure" /\ IsFailure(r)}

----------------------------------------------------------------------------
(* Claims *)

\* C1: when the fetch at the start of syncContent returns a file whose content
\* equals the body, the call returns NoChange and has called nothing else: no
\* createBranch, commitFile, createPullRequest or deleteBranch.
C1_NoChangeNoSideEffects ==
    \A p \in Procs :
        (/\ Fetched(p, 0)
         /\ FetchedFile(p, 0) # Null
         /\ FetchedFile(p, 0).content = newContent[p])
        => /\ Done(p)
           /\ result[p] = NoChangeResult
           /\ Len(log[p]) = 1
           /\ \A op \in {"createBranch", "commitFile", "createPullRequest",
                         "deleteBranch"} : Count(p, op) = 0

C1_Witness ==
    \E p \in Procs :
        /\ Done(p)
        /\ Fetched(p, 0)
        /\ FetchedFile(p, 0) # Null
        /\ FetchedFile(p, 0).content = newContent[p]

\* what C2 and its amendment conclude: two commit calls, one deleteBranch call,
\* which is for the branch of the first attempt, and Success with the reference
C2_Conclusion(p) ==
    /\ Count(p, "commitFile") = 2
    /\ Count(p, "deleteBranch") = 1
    /\ \A i \in Calls(p, "deleteBranch"), j \in CallsAt(p, "createBranch", 0) :
           log[p][i].att = 0 /\ log[p][i].branch = log[p][j].branch
    /\ IsSuccess(result[p])
    /\ \E i \in CallsAt(p, "createPullRequest", 1) : result[p].prUrl = log[p][i].url

\* C2 as claimed: a call whose first commit hit the conflict and whose second
\* commit succeeded ends with two commit calls, one deleteBranch call and Success.
C2_Original ==
    \A p \in Procs :
        (Done(p) /\ CommitConflict(p, 0) /\ CommitOk(p, 1)) => C2_Conclusion(p)

\* C2 amended: the same, provided the pull-request creation of the second
\* attempt succeeds as well.
C2_RetrySucceeds ==
    \A p \in Procs :
        (CommitConflict(p, 0) /\ CommitOk(p, 1) /\ PullRequestOk(p, 1))
        => Done(p) /\ C2_Conclusion(p)

C2_Witness ==
    \E p \in Procs : CommitConflict(p, 0) /\ CommitOk(p, 1) /\ PullRequestOk(p, 1)

\* C3: a call whose commits hit the conflict in both attempts ends with exactly
\* two commit calls and two deleteBranch calls, no pull request, and the Failure
\* whose reason is the conflict-after-retry message.
C3_ConflictAfterRetry ==
    \A p \in Procs :
        (Done(p) /\ CommitConflict(p, 0) /\ CommitConflict(p, 1))
        => /\ Count(p, "commitFile") = 2
           /\ Count(p, "deleteBranch") = 2
           /\ Count(p, "createPullRequest") = 0
           /\ \A pr \in prs, i \in DOMAIN log[p] : pr.head # log[p][i].branch
           /\ result[p] = FailureResult(RetryFailedMsg)

C3_Witness ==
    \E p \in Procs : Done(p) /\ CommitConflict(p, 0) /\ CommitConflict(p, 1)

\* C4 as claimed: a call never runs more than two attempts: the retry counter
\* stays at most 1, and the call makes at most two createBranch, two commitFile
\* and one createPullRequest call.
C4_Original ==
    \A p \in Procs :
        /\ retryCount[p] <= 1
        /\ Count(p, "createBranch") <= 2
        /\ Count(p, "commitFile") <= 2
        /\ Count(p, "createPullRequest") <= 1

\* C5: every started call completes, and with exactly one of the outcomes
\* NoChange, Success and Failure: its promise is never rejected.
C5_AlwaysAnOutcome ==
    \A p \in Procs :
        (pc[p] # "idle") ~> (Done(p) /\ Cardinality(OutcomeKinds(result[p])) = 1)

C5_Witness ==
    \E p \in Procs :
        /\ Done(p)
        /\ IsFailure(result[p])
        /\ \E i \in Calls(p, "deleteBranch") : log[p][i].res # NoError

\* C6 as claimed: of two calls that run at the same time, fetched the same token
\* and commit differing bodies, at most one commits without a conflict.
C6_Original ==
    \A p, q \in Procs :
        (/\ p # q
         /\ currentFile[p] # Null
         /\ currentFile[p] = currentFile[q]
         /\ newContent[p] # newContent[q])
        => ~(pc[p] = "createPullRequest" /\ pc[q] = "createPullRequest")

\* C7 as claimed: an attempt whose fetch found no file sends its write without
\* a token, opens a pull request and the call returns Success with its reference.
C7_Original ==
    \A p \in Procs :
        (Done(p) /\ Fetched(p, retryCount[p]) /\ FetchedFile(p, retryCount[p]) = Null)
        => /\ \E i \in CallsAt(p, "commitFile", retryCount[p]) :
                  log[p][i].wrote /\ log[p][i].sha = NoSha
           /\ PullRequestOk(p, retryCount[p])
           /\ IsSuccess(result[p])

\* C7 amended: in an attempt whose fetch found no file, commitFile fetches the
\* file again and its write carries the token of that second fetch: none only if
\* the file is still absent then.  When the pull-request creation of the attempt
\* succeeds, the pull request is open and the call returns Success with the
\* reference the remote returned.
C7_CreateOrRefetchedToken ==
    \A p \in Procs : \A a \in 0..retryCount[p] :
        (Fetched(p, a) /\ FetchedFile(p, a) = Null)
        => /\ \A i \in CallsAt(p, "commitFile", a) :
                  log[p][i].wrote => log[p][i].sha = OptSha(log[p][i].file)
           /\ \A i \in CallsAt(p, "createPullRequest", a) :
                  log[p][i].res = NoError
                  => /\ Done(p)
                     /\ result[p] = SuccessResult(log[p][i].url)
                     /\ [head |-> log[p][i].branch, url |-> log[p][i].url] \in prs

C7_Witness ==
    \E p \in Procs : \E a \in 0..retryCount[p] :
        /\ Fetched(p, a) /\ FetchedFile(p, a) = Null
        /\ \E i \in CallsAt(p, "commitFile", a) :
               log[p][i].wrote /\ log[p][i].sha # NoSha
        /\ PullRequestOk(p, a)

C9_Original ==
    \A p \in Procs :
        retryCount[p] >= 1
        => \E i \in CallsAt(p, "commitFile", 0) : IncludesRaceCondition(log[p][i].res)

\* C10 as claimed: when commitFile or createPullRequest fails with an error that
\* is not the conflict, the call makes one deleteBranch call for its branch and
\* no other call after the failure, and returns Failure with the error's message.
C10_Original ==
    \A p \in Procs : \A i \in DOMAIN log[p] :
        (/\ Done(p)
         /\ log[p][i].op \in {"commitFile", "createPullRequest"}
         /\ log[p][i].res # NoError
         /\ log[p][i].op = "commitFile" => ~IncludesRaceCondition(log[p][i].res))
        => /\ Len(log[p]) = i + 1
           /\ log[p][i + 1].op = "deleteBranch"
           /\ log[p][i + 1].branch = log[p][i].branch
           /\ result[p] = FailureResult(log[p][i].res)

\* C11: whatever deleteBranch answers in the cleanup, the call goes on as the
\* error that led to the cleanup alone decides: a conflict in the first attempt
\* starts the retry, a conflict in the retry returns the conflict-after-retry
\* Failure, any other error returns the Failure with that error's message; the
\* error of the deletion is never thrown to the caller nor reported.
C11_CleanupErrorSwallowed ==
    \A p \in Procs : \A i \in Calls(p, "deleteBranch") :
        /\ i > 1
        /\ log[p][i - 1].att = log[p][i].att
        /\ log[p][i - 1].res # NoError
        /\ result[p].thrown = NoError
        /\ IF IncludesRaceCondition(log[p][i - 1].res)
           THEN IF log[p][i].att = 0
                THEN /\ retryCount[p] = 1
                     /\ Len(log[p]) > i => log[p][i + 1].att = 1
                ELSE /\ Done(p)
                     /\ Len(log[p]) = i
                     /\ result[p] = FailureResult(RetryFailedMsg)
           ELSE /\ Done(p)
                /\ Len(log[p]) = i
                /\ result[p] = FailureResult(log[p][i - 1].res)

\* the deletion failed in the cleanup after the conflict of the first attempt, and
\* the call came to its end through the retry
C11_Witness ==
    \E p \in Procs : \E i \in Calls(p, "deleteBranch") :
        /\ log[p][i].res # NoError
        /\ log[p][i - 1].op = "commitFile"
        /\ log[p][i - 1].res = RaceConditionMsg
        /\ log[p][i].att = 0
        /\ Done(p)

\* C12: getCurrentFile returns the sha and the decoded content of the file the
\* remote answered with, returns null when the remote answered Not Found, and
\* throws the remote's error when the remote answered with any other error.
C12_GetCurrentFileCases ==
    \A p \in Procs : \A i \in Calls(p, "getCurrentFile") :
        LET e == log[p][i] IN
        /\ (e.resp.ok /\ e.resp.val.type = "file")
           => /\ e.res = NoError
              /\ e.file # Null
              /\ e.file.sha = e.resp.val.sha
              /\ Base64Encode(e.file.content) = e.resp.val.content
        /\ (~e.resp.ok /\ e.resp.msg = NotFoundMsg)
           => e.res = NoError /\ e.file = Null
        /\ (~e.resp.ok /\ e.resp.msg # NotFoundMsg)
           => /\ e.res = e.resp.msg
              /\ (i = Len(log[p]) /\ pc[p] = "deleteBranch") => caught[p] = e.res

\* a call whose first fetch returned a file and whose second fetch threw the
\* remote's error
C12_Witness ==
    \E p \in Procs : \E i, j \in Calls(p, "getCurrentFile") :
        /\ log[p][i].resp.ok /\ log[p][i].file # Null
        /\ ~log[p][j].resp.ok /\ log[p][j].resp.msg = ApiErrorMsg
        /\ log[p][j].res = ApiErrorMsg

\* getCurrentFile returned null for a remote that answered Not Found
C12_WitnessNull ==
    \E p \in Procs : \E i \in Calls(p, "getCurrentFile") :
        ~log[p][i].resp.ok /\ log[p][i].resp.msg = NotFoundMsg /\ log[p][i].file = Null

\* C13 as claimed: when the fetch at the start of a call throws, the call is not
\* retried, makes no createBranch, commitFile or createPullRequest call, and
\* returns the Failure with the message of the fetch's error.
C13_Original ==
    \A p \in Procs :
        (Len(log[p]) >= 1 /\ log[p][1].op = "getCurrentFile" /\ log[p][1].res # NoError)
        => /\ retryCount[p] = 0
           /\ \A op \in {"createBranch", "commitFile", "createPullRequest"} :
                  Count(p, op) = 0
           /\ Done(p) => result[p] = FailureResult(log[p][1].res)

\* C14 as claimed: two attempts never use the same branch name: neither the
\* running attempts of two calls, nor an earlier attempt and the running attempt
\* of one call.
C14_Original ==
    /\ \A p, q \in Procs :
           (p # q /\ pc[p] # "idle" /\ pc[q] # "idle") => branchName[p] # branchName[q]
    /\ \A p \in Procs : \A i \in DOMAIN log[p] :
           log[p][i].att < retryCount[p] => log[p][i].branch # branchName[p]

\* the request a call may issue next after the request it awaits has returned
C15_NextRequests(awaited) ==
    CASE awaited = "idle" -> {"getCurrentFile"}
      [] awaited = "getCurrentFile" -> {"getBranch", "deleteBranch", "done"}
      [] awaited = "getBranch" -> {"createRef", "deleteBranch"}
      [] awaited = "createRef" -> {"commitGetFile", "putFile", "deleteBranch"}
      [] awaited = "commitGetFile" -> {"putFile", "deleteBranch"}
      [] awaited = "putFile" -> {"createPullRequest", "deleteBranch"}
      [] awaited = "createPullRequest" -> {"done", "deleteBranch"}
      [] awaited = "deleteBranch" -> {"getCurrentFile", "done"}
      [] OTHER -> {}

\* C15: a call issues its requests one after another in the order fetch, read of
\* the base tip, creation of the branch, commit, opening of the pull request,
\* each after the one before it has returned; the commit is issued only after
\* createBranch of the same attempt returned normally, and the pull request is
\* opened only after commitFile of the same attempt returned normally.
C15_RequestsInOrder ==
    [][\A p \in Procs :
          pc'[p] # pc[p]
          => /\ pc'[p] \in C15_NextRequests(pc[p])
             /\ pc'[p] = "getBranch"
                => /\ log'[p][Len(log'[p])].op = "getCurrentFile"
                   /\ log'[p][Len(log'[p])].res = NoError
                   /\ log'[p][Len(log'[p])].att = retryCount'[p]
             /\ pc'[p] \in {"commitGetFile", "putFile"}
                => /\ log'[p][Len(log'[p])].op = "createBranch"
                   /\ log'[p][Len(log'[p])].res = NoError
                   /\ log'[p][Len(log'[p])].att = retryCount'[p]
                   /\ log'[p][Len(log'[p])].branch = branchName'[p]
             /\ pc'[p] = "createPullRequest"
                => /\ log'[p][Len(log'[p])].op = "commitFile"
                   /\ log'[p][Len(log'[p])].res = NoError
                   /\ log'[p][Len(log'[p])].att = retryCount'[p]
                   /\ log'[p][Len(log'[p])].branch = branchName'[p]]_vars

\* a call went through all five requests and opened its pull request
C15_Witness ==
    \E p \in Procs :
        /\ Done(p)
        /\ Len(log[p]) = 4
        /\ PullRequestOk(p, 0)

\* C16: when createBranch returns normally, the branch did not exist before, it
\* exists now and holds the tip of the base branch that createBranch read, and
\* nothing else changed; when createBranch throws, whether in reading the tip or
\* in creating the ref, the branches are as they were.
C16_CreateBranchAtomic ==
    [][\A p \in Procs :
          (/\ Len(log'[p]) = Len(log[p]) + 1
           /\ log'[p][Len(log'[p])].op = "createBranch")
          => IF log'[p][Len(log'[p])].res = NoError
             THEN /\ pc[p] = "createRef"
                  /\ ~BranchExists(branchName[p])
                  /\ branches' = branches \cup
                         {[name |-> branchName[p], file |-> baseTip[p]]}
             ELSE /\ pc[p] \in {"getBranch", "createRef"}
                  /\ branches' = branches]_vars

\* createBranch returned normally with a tip that is no longer the tip of the
\* base branch
C16_Witness ==
    \E p \in Procs : \E i \in Calls(p, "createBranch") :
        /\ log[p][i].res = NoError
        /\ i = Len(log[p])
        /\ BranchExists(log[p][i].branch)
        /\ BranchFile(log[p][i].branch) # baseFile

\* C17: commitFile called with a sha fetches nothing itself and sends its write
\* with exactly that sha; when the remote rejects the write with a sha mismatch
\* commitFile throws its conflict error, and when the remote rejects it with any
\* other error commitFile throws that error unchanged, which is not its conflict
\* error.
C17_CommitWithToken ==
    /\ \A p \in Procs : pc[p] = "commitGetFile" => currentFile[p] = Null
    /\ \A p \in Procs : \A i \in Calls(p, "commitFile") :
           LET e == log[p][i] IN
           e.arg # NoSha
           => /\ e.wrote
              /\ e.sha = e.arg
              /\ e.file = Null
              /\ log[p][i - 1].op = "createBranch"
              /\ e.resp.ok => e.res = NoError
              /\ (~e.resp.ok /\ e.resp.msg = ShaMismatchMsg) => e.res = RaceConditionMsg
              /\ (~e.resp.ok /\ e.resp.msg # ShaMismatchMsg)
                 => e.res = e.resp.msg /\ e.res # RaceConditionMsg

\* commitFile was given a sha and the remote rejected its write with a sha mismatch
C17_Witness ==
    \E p \in Procs : \E i \in Calls(p, "commitFile") :
        /\ log[p][i].arg # NoSha
        /\ log[p][i].wrote
        /\ ~log[p][i].resp.ok
        /\ log[p][i].resp.msg = ShaMismatchMsg

\* a coordinate of the configuration is absent: not set, or set to nothing
C18_Absent(value) == value \in {Undefined, ""}

\* C18: new GitHubService(env) throws the credentials error, constructing
\* nothing, exactly when GITHUB_TOKEN or GITHUB_REPO is absent, and else gives a
\* service with this token and repository; isGitHubPRModeEnabled(env) is true
\* exactly when new GitHubService(env) does not throw.
C18_ConstructionAndMode ==
    [][/\ service' # service
          => LET absent == C18_Absent(env.GITHUB_TOKEN) \/ C18_Absent(env.GITHUB_REPO) IN
             /\ absent <=> (service'.thrown = CredentialsMsg)
             /\ absent <=> ~service'.constructed
             /\ ~absent => /\ service'.thrown = NoError
                           /\ service'.token = env.GITHUB_TOKEN
                           /\ service'.repo = env.GITHUB_REPO
       /\ prMode' # prMode
          => /\ prMode'.asked
             /\ prMode'.enabled
                <=> ~(C18_Absent(env.GITHUB_TOKEN) \/ C18_Absent(env.GITHUB_REPO))
             /\ prMode'.enabled <=> NewGitHubService(env).constructed]_vars

\* with the token set and the repository not, the construction threw and the
\* mode was found disabled
C18_Witness ==
    /\ env.GITHUB_TOKEN = "ghp_token"
    /\ env.GITHUB_REPO = Undefined
    /\ service.thrown = CredentialsMsg
    /\ prMode = Asked(FALSE)

\* the mutation of the request that handler p answered is in the store
C19_MutationKept(p) ==
    IF request[p].method = "PUT"
    THEN /\ HasText(artifact, request[p].key)
         /\ GetText(artifact, request[p].key) = request[p].updatedText
         /\ GetText(artifact, request[p].key).content = request[p].content
    ELSE ~HasText(artifact, request[p].key)

\* C19: when the syncContent call of an update or delete request ended in a
\* Failure, returned or thrown, the response has status 207 and success true and
\* carries the failure as githubSync, and the mutation is still in the store;
\* when the call ended in Success or NoChange the response has status 200 and
\* carries that result.
C19_PartialSuccess ==
    \A p \in Procs :
        (handler[p] = "responded" /\ pc[p] = "done")
        => LET r == result[p]
               resp == response[p]
           IN
           /\ resp.success
           /\ resp.hasGithubSync
           /\ C19_MutationKept(p)
           /\ IsFailure(r) \/ r.thrown # NoError \/ IsSuccess(r) \/ IsNoChange(r)
           /\ (IsFailure(r) \/ r.thrown # NoError)
              => /\ resp.status = 207
                 /\ ~resp.githubSync.success
                 /\ resp.githubSync.error = IF r.thrown # NoError THEN r.thrown
                                            ELSE r.error
           /\ (IsSuccess(r) \/ IsNoChange(r))
              => /\ resp.status = 200
                 /\ resp.githubSync = r

\* a delete request removed an item, its sync failed and it was answered 207
C19_Witness ==
    \E p \in Procs :
        /\ handler[p] = "responded"
        /\ pc[p] = "done"
        /\ request[p].method = "DELETE"
        /\ IsFailure(result[p])
        /\ response[p].status = 207
        /\ response[p].artifact.count = 0

\* C20: with GITHUB_TOKEN or GITHUB_REPO not configured, no request starts a
\* syncContent call or constructs the service, the remote is never called, no
\* response has a githubSync field, and every response with success true has
\* status 200.
C20_NoSyncUnconfigured ==
    (env.GITHUB_TOKEN \in {Undefined, ""} \/ env.GITHUB_REPO \in {Undefined, ""})
    => /\ service = NoService
       /\ branches = {} /\ prs = {}
       /\ faultsLeft = MaxFaults
       /\ \A p \in Procs :
              /\ pc[p] = "idle"
              /\ handler[p] # "awaitSync"
              /\ log[p] = << >>
              /\ result[p] = NoResult
              /\ ~response[p].hasGithubSync
              /\ response[p].githubSync = NoResult
              /\ response[p].success => response[p].status = 200

\* without a repository configured, an update and then a delete were answered 200
C20_Witness ==
    \E p \in Procs :
        /\ env.GITHUB_TOKEN = "ghp_token"
        /\ env.GITHUB_REPO = ""
        /\ handled = 2
        /\ request[p].method = "DELETE"
        /\ response[p].success
        /\ response[p].status = 200

\* C29 as claimed: every deleteBranch call of a call follows a createBranch of
\* the same attempt that returned normally and names the branch it created.
C29_Original ==
    \A p \in Procs : \A i \in Calls(p, "deleteBranch") :
        \E j \in CallsAt(p, "createBranch", log[p][i].att) :
            /\ j < i
            /\ log[p][j].res = NoError
            /\ log[p][j].branch = log[p][i].branch

\* C30 as claimed: a call returns the conflict-after-retry Failure exactly when
\* the commits of both attempts threw the conflict error; after a conflict in
\* the first attempt, a second attempt that fails otherwise returns the Failure
\* with the message of the error that failed it.
C30_Original ==
    \A p \in Procs :
        Done(p)
        => /\ result[p] = FailureResult(RetryFailedMsg)
              <=> (CommitConflict(p, 0) /\ CommitConflict(p, 1))
           /\ (/\ CommitConflict(p, 0)
               /\ ~CommitConflict(p, 1)
               /\ \E i \in DOMAIN log[p] :
                      /\ log[p][i].att = 1
                      /\ log[p][i].op # "deleteBranch"
                      /\ log[p][i].res # NoError)
              => \E i \in DOMAIN log[p] :
                     /\ log[p][i].att = 1
                     /\ log[p][i].op # "deleteBranch"
                     /\ log[p][i].res # NoError
                     /\ result[p] = FailureResult(log[p][i].res)

\* C21 as claimed: a PUT request with an invalid body is answered 400 and a
\* DELETE request for a key that is not in the store is answered 404, and
\* neither changes the artifact, lastUpdated included, nor starts a syncContent
\* call.
C21_Original ==
    [][\A p \in Procs :
          (/\ handled' = handled + 1
           /\ request'[p] # request[p] \/ handler'[p] # handler[p]
           /\ \/ request'[p].method = "PUT" /\ ~ValidBody(request'[p].content)
              \/ request'[p].method = "DELETE" /\ ~HasText(artifact, request'[p].key))
          => /\ response'[p].status =
                    IF request'[p].method = "PUT" THEN StatusBadRequest
                    ELSE StatusNotFound
             /\ ~response'[p].success
             /\ artifact' = artifact
             /\ handler'[p] = "responded"
             /\ pc'[p] = "idle"
             /\ service' = service]_vars

\* C22 as claimed: after updateText(k, c, a), getText(k) returns an item with key
\* k, content c, approvedBy a (none if none was given) and version 1 if k was not
\* in the store, else the version held before plus one, and getText of every
\* other key returns what it returned before.
C22_Original ==
    [][(storeCalls' = storeCalls + 1 /\ returned'.op = "updateText")
       => LET k == returned'.key
              got == GetText(artifact', k)
          IN
          /\ got.key = k
          /\ got.content = returned'.content
          /\ got.approvedBy = returned'.approvedBy
          /\ got.version = IF HasText(artifact, k)
                           THEN LookupOwn(artifact, k).version + 1 ELSE 1
          /\ \A j \in StoreKeys \ {k} : GetText(artifact', j) = GetText(artifact, j)]_vars

\* C23 as claimed: deleteText(k) returns true and removes k, leaving the other
\* items alone and stamping lastUpdated, when k is in the store; it returns false
\* and leaves the artifact as it is, lastUpdated included, when k is not in the
\* store; getText of a key that is not in the store returns null.
C23_Original ==
    [][/\ (storeCalls' = storeCalls + 1 /\ returned'.op = "deleteText")
          => LET k == returned'.key IN
             IF HasText(artifact, k)
             THEN /\ returned'.flag
                  /\ ~HasText(artifact', k)
                  /\ \A j \in StoreKeys \ {k} : LookupOwn(artifact', j) = LookupOwn(artifact, j)
                  /\ artifact'.lastUpdated = ToISOString(now')
             ELSE /\ ~returned'.flag
                  /\ artifact' = artifact
       /\ (storeCalls' = storeCalls + 1 /\ returned'.op = "getText"
           /\ ~HasText(artifact, returned'.key))
          => returned'.item = NullItem]_vars

\* the clock value that a lastUpdated written by the store stands for
C24_TimeOf(stamp) == CHOOSE t \in 0..MaxClock : ToISOString(t) = stamp

\* C24: an updateText, and a deleteText that removes an item, leave lastUpdated
\* at the time of the call; as the clock never goes back, no updateText or
\* deleteText call moves lastUpdated backwards.
C24_LastUpdatedRefreshed ==
    [][(storeCalls' = storeCalls + 1 /\ returned'.op \in {"updateText", "deleteText"})
       => /\ now' >= now
          /\ (returned'.op = "updateText" \/ returned'.had)
             => artifact'.lastUpdated = ToISOString(now')
          /\ artifact'.texts # artifact.texts
             => artifact'.lastUpdated = ToISOString(now')
          /\ C24_TimeOf(artifact'.lastUpdated) >= C24_TimeOf(artifact.lastUpdated)]_vars

\* a deleteText call removed an item written at an earlier time and left
\* lastUpdated at the later time of the removal
C24_Witness ==
    /\ returned.op = "deleteText"
    /\ returned.had
    /\ returned.flag
    /\ returned.previous.approvedAt = ToISOString(0)
    /\ ~HasText(artifact, returned.key)
    /\ now = 1
    /\ artifact.lastUpdated = ToISOString(1)

\* C25 as claimed: whatever the caller does to the mapping that getAllTexts
\* returned (a field of an item changed, an entry added, replaced or removed),
\* the items of the store, which getText and getAllTexts return, stay as they
\* are.
C25_Original ==
    [][(storeCalls' = storeCalls + 1
        /\ returned'.op \in {"change item", "put entry", "remove entry"})
       => /\ artifact' = artifact
          /\ \A k \in StoreKeys : GetText(artifact', k) = GetText(artifact, k)
          /\ GetAllTexts(artifact') = GetAllTexts(artifact)]_vars

\* C26: loadFromJson of the string that toJsonString just returned leaves an
\* artifact that toJsonString writes as the same string, with the schema version,
\* lastUpdated and the key, content, approvedAt and approvedBy of every item as
\* they were, whatever updateText and deleteText calls (and loads) came before.
C26_RoundTrip ==
    [][(/\ storeCalls' = storeCalls + 1
        /\ returned.op = "toJsonString"
        /\ returned'.op = "loadFromJson"
        /\ returned'.text = returned.text)
       => /\ ToJsonString(artifact') = returned.text
          /\ artifact'.version = artifact.version
          /\ artifact'.lastUpdated = artifact.lastUpdated
          /\ Len(artifact'.texts) = Len(artifact.texts)
          /\ \A i \in DOMAIN artifact.texts :
                 /\ artifact'.texts[i].key = artifact.texts[i].key
                 /\ artifact'.texts[i].content = artifact.texts[i].content
                 /\ artifact'.texts[i].approvedAt = artifact.texts[i].approvedAt
                 /\ artifact'.texts[i].approvedBy = artifact.texts[i].approvedBy
                 /\ VersionFieldJson(artifact'.texts[i].version)
                        = VersionFieldJson(artifact.texts[i].version)]_vars

\* an artifact with an item without approver, written at time 0, was written as
\* JSON and loaded back at time 1
C26_Witness ==
    /\ returned.op = "loadFromJson"
    /\ returned.text \notin Documents \cup MalformedTexts
    /\ returned.text = ToJsonString(artifact)
    /\ now = 1
    /\ artifact.lastUpdated = ToISOString(0)
    /\ \E i \in DOMAIN artifact.texts :
           /\ artifact.texts[i].approvedBy = Undefined
           /\ artifact.texts[i].version = 1

\* C27: loadFromJson of a text that is no JSON returns normally and leaves an
\* artifact without items, with the default schema version and with lastUpdated
\* at the time of the call, whatever the store held.
C27_MalformedGivesEmpty ==
    [][(/\ storeCalls' = storeCalls + 1
        /\ returned'.op = "loadFromJson"
        /\ returned'.text \in MalformedTexts)
       => /\ artifact'.texts = << >>
          /\ GetMetadata(artifact').count = 0
          /\ artifact'.version = SchemaVersion
          /\ artifact'.lastUpdated = ToISOString(now')]_vars

\* a store that held items, last changed at time 0, loaded a malformed text at
\* time 1
C27_Witness ==
    /\ returned.op = "loadFromJson"
    /\ returned.text \in MalformedTexts
    /\ returned.had
    /\ now = 1
    /\ artifact = NewArtifact(1)

\* the items that the records of a document describe
C28_ItemsOf(text) ==
    CASE text = "{}" -> << >>
      [] text = SparseDocument ->
            << [key |-> "k1", content |-> "Hi", approvedAt |-> Undefined,
                approvedBy |-> Undefined, version |-> NoVersion] >>
      [] text = FullDocument ->
            << [key |-> "k2", content |-> "Yo", approvedAt |-> ToISOString(0),
                approvedBy |-> "bob", version |-> 2] >>

\* C28: after loadFromJson of a document the store holds the items of the
\* document and no other (none of those it held before), each with the fields
\* its record has and without those its record lacks.
C28_DocumentReplacesAll ==
    [][(/\ storeCalls' = storeCalls + 1
        /\ returned'.op = "loadFromJson"
        /\ returned'.text \in Documents)
       => /\ artifact'.texts = C28_ItemsOf(returned'.text)
          /\ \A k \in StoreKeys \cup {"k2"} :
                 HasText(artifact', k)
                 <=> \E i \in DOMAIN C28_ItemsOf(returned'.text) :
                        C28_ItemsOf(returned'.text)[i].key = k
          /\ GetMetadata(artifact').count = Len(C28_ItemsOf(returned'.text))]_vars

\* a store that held items loaded the document whose record has only key and
\* content: it holds that record alone, without approvedAt, approvedBy or version
C28_Witness ==
    /\ returned.op = "loadFromJson"
    /\ returned.text = SparseDocument
    /\ returned.had
    /\ ~HasText(artifact, "constructor")
    /\ Len(artifact.texts) = 1
    /\ GetText(artifact, "k1").content = "Hi"
    /\ GetText(artifact, "k1").approvedAt = Undefined
    /\ GetText(artifact, "k1").approvedBy = Undefined
    /\ GetText(artifact, "k1").version = NoVersion

\* the successful pull-request creations of call p
C34_Opened(p) == {i \in Calls(p, "createPullRequest") : log[p][i].res = NoError}

\* what C34 says of a call p that has just returned Success
C34_AtReturn(p) ==
    /\ Cardinality(C34_Opened(p)) = 1
    /\ Cardinality({pr \in prs : pr.url = result[p].prUrl}) = 1
    /\ [head |-> branchName[p], url |-> result[p].prUrl] \in prs
    /\ \E j \in CallsAt(p, "createBranch", retryCount[p]) :
           /\ log[p][j].res = NoError
           /\ log[p][j].branch = branchName[p]
           /\ \A i \in Calls(p, "deleteBranch") : i < j
           /\ \E c \in CallsAt(p, "commitFile", retryCount[p]) :
                  /\ c > j
                  /\ log[p][c].res = NoError
                  /\ log[p][c].wrote
                  /\ log[p][c].branch = branchName[p]
    /\ BranchExists(branchName[p])
    /\ BranchFile(branchName[p]) = newContent[p]

\* C34: when a call returns Success, it opened exactly one pull request, whose
\* head is the branch that the attempt that succeeded created and that holds the
\* body by a commit of that attempt that returned normally, and the call issued
\* no deleteBranch since that branch was created.
C34_SuccessOnePullRequest ==
    [][\A p \in Procs :
          (pc[p] # "done" /\ pc'[p] = "done" /\ IsSuccess(result'[p]))
          => C34_AtReturn(p)']_vars

\* a call returned Success from its retry, whose branch has the name of the
\* branch that the first attempt created and deleted
C34_Witness ==
    \E p \in Procs :
        /\ Done(p)
        /\ IsSuccess(result[p])
        /\ retryCount[p] = 1
        /\ \E i \in CallsAt(p, "deleteBranch", 0) :
               log[p][i].res = NoError /\ log[p][i].branch = branchName[p]
        /\ BranchFile(branchName[p]) = newContent[p]

\* what C35 says of a call p that has just returned Failure or NoChange
C35_AtReturn(p) ==
    /\ \A i \in Calls(p, "createPullRequest") : log[p][i].res # NoError
    /\ \A pr \in prs, i \in DOMAIN log[p] : pr.head # log[p][i].branch
    /\ \A j \in Calls(p, "createBranch") :
           log[p][j].res = NoError
           => /\ \E i \in CallsAt(p, "deleteBranch", log[p][j].att) :
                     i > j /\ log[p][i].branch = log[p][j].branch
              /\ BranchExists(log[p][j].branch)
                 => \E i \in Calls(p, "deleteBranch") :
                        /\ i > j
                        /\ log[p][i].branch = log[p][j].branch
                        /\ log[p][i].res # NoError

\* C35: when a call returns Failure or NoChange, it opened no pull request, and
\* for every branch it created it issued a deleteBranch afterwards, in the same
\* attempt; such a branch is still there at the return only if a deleteBranch
\* for it failed.
C35_NoPullRequestAndCleanup ==
    [][\A p \in Procs :
          (/\ pc[p] # "done" /\ pc'[p] = "done"
           /\ IsFailure(result'[p]) \/ IsNoChange(result'[p]))
          => C35_AtReturn(p)']_vars

\* a call returned NoChange from its retry after its first attempt created a
\* branch, and that branch is still there because its deletion failed
C35_Witness ==
    \E p \in Procs :
        /\ Done(p)
        /\ IsNoChange(result[p])
        /\ \E j \in CallsAt(p, "createBranch", 0) :
               /\ log[p][j].res = NoError
               /\ BranchExists(log[p][j].branch)
        /\ \E i \in CallsAt(p, "deleteBranch", 0) : log[p][i].res # NoError

\* a call returned Failure after its commit failed, and its branch is gone
C35_WitnessFailure ==
    \E p \in Procs :
        /\ Done(p)
        /\ IsFailure(result[p])
        /\ \E j \in Calls(p, "createBranch") :
               log[p][j].res = NoError /\ ~BranchExists(log[p][j].branch)

\* C36: when the commit of the first attempt threw the conflict error and the
\* fetch of the retry returned a file whose content equals the body, the call
\* has returned NoChange after exactly one commitFile, one createBranch and one
\* deleteBranch call, all of the first attempt, and opened no pull request.
C36_ConflictThenNoChange ==
    \A p \in Procs :
        (/\ CommitConflict(p, 0)
         /\ Fetched(p, 1)
         /\ FetchedFile(p, 1) # Null
         /\ FetchedFile(p, 1).content = newContent[p])
        => /\ Done(p)
           /\ result[p] = NoChangeResult
           /\ Count(p, "commitFile") = 1
           /\ Count(p, "createBranch") = 1
           /\ Count(p, "deleteBranch") = 1
           /\ \A op \in {"commitFile", "createBranch", "deleteBranch"} :
                  \A i \in Calls(p, op) : log[p][i].att = 0
           /\ Count(p, "createPullRequest") = 0
           /\ \A pr \in prs, i \in DOMAIN log[p] : pr.head # log[p][i].branch

\* another writer put the body into the remote file between the fetch and the
\* commit of the first attempt, and the retry found it there
C36_Witness ==
    \E p \in Procs :
        /\ CommitConflict(p, 0)
        /\ Fetched(p, 1)
        /\ FetchedFile(p, 1) # Null
        /\ FetchedFile(p, 1).content = newContent[p]
        /\ FetchedFile(p, 0) # FetchedFile(p, 1)
        /\ baseFile = newContent[p]
        /\ Done(p)

\* C37 as claimed: with calls running at the same time, every deleteBranch that
\* a call issues names a branch that a createBranch of the same call, in the
\* same attempt, created; so no call removes the branch of another call.
C37_Original ==
    [][\A p \in Procs :
          (/\ Len(log'[p]) = Len(log[p]) + 1
           /\ log'[p][Len(log'[p])].op = "deleteBranch")
          => \E j \in CallsAt(p, "createBranch", retryCount[p]) :
                 /\ log[p][j].res = NoError
                 /\ log[p][j].branch = branchName[p]]_vars

\* C39 as claimed: every item that updateText writes has a whole number of at
\* least 1 as its version, whatever updateText, deleteText and loadFromJson
\* calls came before, also when the key held an item loaded without a version.
C39_Original ==
    [][(storeCalls' = storeCalls + 1 /\ returned'.op = "updateText")
       => /\ HasText(artifact', returned'.key)
          /\ LookupOwn(artifact', returned'.key).version \in Nat
          /\ LookupOwn(artifact', returned'.key).version >= 1]_vars

\* updateText wrote an item over one that was loaded without a version field, and
\* the version of the item written is no number
C39_LoadedWithoutVersion ==
    /\ returned.op = "updateText"
    /\ returned.key \notin PrototypeKeys
    /\ returned.had
    /\ returned.previous.version = NoVersion
    /\ returned.item.version = NaN
    /\ GetText(artifact, returned.key).version = NaN

\* C40 as claimed: an updateText(k, c) that is the next call after a deleteText(k)
\* that removed the item writes version 1, whatever the version was; and an
\* updateText(k, c) for a key that holds an item of an earlier write, none
\* deleted since, writes the version of that item plus one.
C40_Original ==
    [][(storeCalls' = storeCalls + 1 /\ returned'.op = "updateText")
       => /\ (/\ returned.op = "deleteText"
              /\ returned.key = returned'.key
              /\ returned.had
              /\ returned.flag)
             => returned'.item.version = 1
          /\ returned'.had
             => /\ returned'.previous.version \in Nat
                /\ returned'.item.version = returned'.previous.version + 1]_vars

\* C32: within one invocation of syncContent (the retry is an invocation of its
\* own) the message handed to commitFile and the title and the body handed to
\* createPullRequest are the templates rendered with the key of the call and with
\* one timestamp, that of the time at which the invocation started.
C32_OneTimestamp ==
    [][\A p \in Procs :
          Len(log'[p]) = Len(log[p]) + 1
          => LET e == log'[p][Len(log'[p])]
                 k == key[p]
                 stamp == ToISOString(e.branch[3])
             IN
             /\ e.op = "commitFile"
                => TextOf(e.message)
                       = "Update text artifact for " \o k \o " - " \o stamp
             /\ e.op = "createPullRequest"
                => /\ TextOf(e.title) = "Text Update: " \o k
                   /\ TextOf(e.body)
                          = "Automated text update for " \o k \o " at " \o stamp
                   /\ \A j \in CallsAt(p, "commitFile", e.att) :
                          /\ e.title[3] = log[p][j].message[3]
                          /\ e.body[3] = log[p][j].message[3]
                          /\ e.title[2] = log[p][j].message[2]
                          /\ e.body[2] = log[p][j].message[2]]_vars

\* a retry that started later than the first attempt opened the pull request:
\* its commit message, title and body carry the time of the retry, the commit
\* message of the first attempt that of the first attempt
C32_Witness ==
    \E p \in Procs :
        /\ PullRequestOk(p, 1)
        /\ \E i \in CallsAt(p, "commitFile", 0) : log[p][i].message[3] = 0
        /\ \E i \in CallsAt(p, "commitFile", 1) :
               /\ log[p][i].message[3] = 1
               /\ TextOf(log[p][i].message)
                      = "Update text artifact for k1 - 1970-01-01T00:00:00.001Z"
        /\ \E i \in CallsAt(p, "createPullRequest", 1) :
               TextOf(log[p][i].body)
                   = "Automated text update for k1 at 1970-01-01T00:00:00.001Z"

\* the text that C33 describes: template from i on, with every {key} replaced by
\* k and every {timestamp} by stamp, and all other text as it is
RECURSIVE C33_Substituted(_, _, _, _)
C33_Substituted(template, i, k, stamp) ==
    IF i > Len(template) THEN ""
    ELSE IF i + 4 <= Len(template) /\ SubSeq(template, i, i + 4) = "{key}"
         THEN k \o C33_Substituted(template, i + 5, k, stamp)
    ELSE IF i + 10 <= Len(template) /\ SubSeq(template, i, i + 10) = "{timestamp}"
         THEN stamp \o C33_Substituted(template, i + 11, k, stamp)
    ELSE CharAt(template, i) \o C33_Substituted(template, i + 1, k, stamp)

\* C33 as claimed: the text rendered from a template is the template with its
\* placeholders {key} and {timestamp} replaced by the key and the timestamp and
\* all other text verbatim, the key's text not scanned, for every template and
\* key.
C33_Original ==
    rendered.done
    => rendered.text = C33_Substituted(rendered.template, 1, rendered.key,
                                       rendered.timestamp)

\* C31: the retry starts with a fetch of its own and is called with the key and
\* the body of the first attempt; through the whole call the body stays the text
\* that the handler serialized before the call, so the commit of the retry puts
\* that text on its branch, whatever the store holds by then.
C31_RetrySameBody ==
    [][\A p \in Procs :
          /\ retryCount'[p] = retryCount[p] + 1
             => /\ key'[p] = key[p]
                /\ newContent'[p] = newContent[p]
                /\ pc'[p] = "getCurrentFile"
                /\ currentFile'[p] = Null
          /\ (handler[p] = "awaitSync" /\ handler'[p] = "awaitSync")
             => /\ newContent'[p] = request[p].artifactJson
                /\ key'[p] = request[p].key
          /\ (/\ handler[p] = "awaitSync"
              /\ pc[p] = "putFile"
              /\ pc'[p] = "createPullRequest")
             => /\ BranchExists(branchName[p])'
                /\ BranchFile(branchName[p])' = request[p].artifactJson
                /\ retryCount[p] = 1
                   => \E i \in CallsAt(p, "getCurrentFile", 1) :
                          log[p][i].res = NoError]_vars

\* the retry of a request's call, started at time 1, committed the body of the
\* request although the store had been changed at time 0 by a later request
C31_Witness ==
    \E p, q \in Procs :
        /\ p # q
        /\ handler[p] = "awaitSync"
        /\ retryCount[p] = 1
        /\ timestamp[p] = 1
        /\ CommitOk(p, 1)
        /\ BranchExists(branchName[p])
        /\ BranchFile(branchName[p]) = request[p].artifactJson
        /\ request[q].method = "PUT"
        /\ request[q].updatedText.approvedAt = ToISOString(0)
        /\ GetText(artifact, request[q].key) = request[q].updatedText
        /\ request[q].artifactJson = ToJsonString(artifact)
        /\ request[p].artifactJson # ToJsonString(artifact)

\* C38: with requests handled at the same time, the body that an update or
\* delete request hands to syncContent is the serialization of the store as the
\* request's own mutation left it: the store before the request with this one
\* mutation applied.  It holds the item written (or lacks the item deleted), and
\* a mutation of a later request changes the body of no call that is under way.
C38_BodyOfOwnMutation ==
    [][\A p \in Procs :
          (handler[p] # "awaitSync" /\ handler'[p] = "awaitSync")
          => LET req == request'[p] IN
             /\ key'[p] = req.key
             /\ newContent'[p] = ToJsonString(artifact')
             /\ artifact' = IF req.method = "PUT"
                            THEN UpdateText(artifact, req.key, req.content,
                                            req.approvedBy, now')
                            ELSE DeleteText(artifact, req.key, now')
             /\ \A inBody \in {LoadFromJson(artifact', newContent'[p], now')} :
                    IF req.method = "PUT"
                    THEN /\ HasText(inBody, req.key)
                         /\ LookupOwn(inBody, req.key).content = req.content
                         /\ LookupOwn(inBody, req.key).approvedAt
                              = ToISOString(now')
                    ELSE ~HasText(inBody, req.key)
             /\ \A q \in Procs \ {p} :
                    handler[q] = "awaitSync" => newContent'[q] = newContent[q]]_vars

\* two update requests are under way: the body of the first holds its item
\* alone, the body of the second holds both items and is the store as it is
C38_Witness ==
    \E p, q \in Procs :
        /\ handler[p] = "awaitSync" /\ handler[q] = "awaitSync"
        /\ request[p].method = "PUT" /\ request[q].method = "PUT"
        /\ request[p].key # request[q].key
        /\ newContent[q] = ToJsonString(artifact)
        /\ HasText(LoadFromJson(artifact, newContent[q], now), request[p].key)
        /\ HasText(LoadFromJson(artifact, newContent[q], now), request[q].key)
        /\ HasText(LoadFromJson(artifact, newContent[p], now), request[p].key)
        /\ ~HasText(LoadFromJson(artifact, newContent[p], now), request[q].key)

----------------------------------------------------------------------------
TypeOK ==
    /\ baseFile \in STRING
    /\ env \in Envs
    /\ handled \in 0..MaxRequests
    /\ storeCalls \in 0..MaxCalls
    /\ rendered.done \in BOOLEAN /\ rendered.text \in STRING
    /\ returned.op \in {"-", "updateText", "deleteText", "getText", "getAllTexts",
                        "change item", "put entry", "remove entry", "toJsonString",
                        "loadFromJson"}
    /\ artifact.version \in STRING /\ artifact.lastUpdated \in STRING
    /\ \A i \in DOMAIN allTexts : allTexts[i].shared => HasText(artifact, allTexts[i].key)
    /\ \A p \in Procs : handler[p] \in {"idle", "awaitSync", "responded"}
    /\ \A p \in Procs : response[p].status \in {0, 200, 207, 400, 404}
    /\ \A p \in Procs : pc[p] \in {"idle", "getCurrentFile", "getBranch", "createRef",
                                   "commitGetFile", "putFile", "createPullRequest",
                                   "deleteBranch", "done"}
    /\ \A p \in Procs : retryCount[p] \in 0..1
    /\ faultsLeft \in 0..MaxFaults
    /\ extWrites \in 0..MaxExternal
    /\ now \in 0..MaxClock

====
